---------------------------- MODULE Spec2Model ----------------------------
(***************************************************************************)
(* A model of the pcsc crate (src/src/lib.rs): the resource and lifetime   *)
(* model of Context, Canceler, Card and Transaction over the native PC/SC  *)
(* service, and the mapping of native status codes to the Error enum.      *)
(*                                                                         *)
(* The native service (module ffi and the library behind it) is not part   *)
(* of lib.rs; it is modelled as a nondeterministic collaborator.  What     *)
(* Rust's ownership, borrowing and Send/Sync rules forbid at compile time  *)
(* appears here as the guards of the client's actions.                     *)
(***************************************************************************)
EXTENDS Integers, Sequences, FiniteSets, TLC

(***************************************************************************)
(* Bounds of the model.                                                    *)
(***************************************************************************)
\* How many raw codes next to each end of the two Error ranges are tried.
Margin == 2

(***************************************************************************)
(* ffi: the native status codes, as LONG values of 32 bits.                *)
(***************************************************************************)
SCARD_S_SUCCESS == 0

\* 0x80100001 as a 32-bit LONG
SCARD_F_INTERNAL_ERROR == -2146435071

\* 0x80100031 as a 32-bit LONG
SCARD_E_SERVER_TOO_BUSY == -2146435023

\* 0x80100065 as a 32-bit LONG
SCARD_W_UNSUPPORTED_CARD == -2146434971

\* 0x80100072 as a 32-bit LONG
SCARD_W_CACHE_ITEM_TOO_BIG == -2146434958

(***************************************************************************)
(* enum Error: the variants of the two contiguous blocks, in the order of  *)
(* the source.                                                             *)
(***************************************************************************)
ErrorBlock1 ==
    << "InternalError", "Cancelled", "InvalidHandle", "InvalidParameter",
       "InvalidTarget", "NoMemory", "WaitedTooLong", "InsufficientBuffer",
       "UnknownReader", "Timeout", "SharingViolation", "NoSmartcard",
       "UnknownCard", "CantDispose", "ProtoMismatch", "NotReady",
       "InvalidValue", "SystemCancelled", "CommError", "UnknownError",
       "InvalidAtr", "NotTransacted", "ReaderUnavailable", "Shutdown",
       "PciTooSmall", "ReaderUnsupported", "DuplicateReader",
       "CardUnsupported", "NoService", "ServiceStopped", "Unexpected",
       "IccInstallation", "IccCreateorder", "UnsupportedFeature",
       "DirNotFound", "FileNotFound", "NoDir", "NoFile", "NoAccess",
       "WriteTooMany", "BadSeek", "InvalidChv", "UnknownResMng",
       "NoSuchCertificate", "CertificateUnavailable", "NoReadersAvailable",
       "CommDataLost", "NoKeyContainer", "ServerTooBusy" >>

ErrorBlock2 ==
    << "UnsupportedCard", "UnresponsiveCard", "UnpoweredCard", "ResetCard",
       "RemovedCard", "SecurityViolation", "WrongChv", "ChvBlocked", "Eof",
       "CancelledByUser", "CardNotAuthenticated", "CacheItemNotFound",
       "CacheItemStale", "CacheItemTooBig" >>

Range(s) == { s[i] : i \in DOMAIN s }

ErrorNames == Range(ErrorBlock1) \cup Range(ErrorBlock2)

IndexOf(s, x) == CHOOSE i \in DOMAIN s : s[i] = x

\* The ffi constant a variant of Error is declared with (ffi::SCARD_...): the
\* native codes of a block follow each other in the order of the enum.
FfiCode(name) ==
    IF name \in Range(ErrorBlock1)
    THEN SCARD_F_INTERNAL_ERROR + (IndexOf(ErrorBlock1, name) - 1)
    ELSE SCARD_W_UNSUPPORTED_CARD + (IndexOf(ErrorBlock2, name) - 1)

FfiCodes == [name \in ErrorNames |-> FfiCode(name)]

\* `x as u32` of a 32-bit LONG: the two's complement bit pattern, as its two
\* 16-bit halves <<high, low>>.
AsU32(raw) ==
    IF raw >= 0
    THEN << raw \div 65536, raw % 65536 >>
    ELSE LET v == (raw + 2147483647) + 1
         IN  << 32768 + (v \div 65536), v % 65536 >>

\* The discriminant of each variant: `ffi::SCARD_... as u32`.
ErrorValue == [name \in ErrorNames |-> AsU32(FfiCode(name))]

\* What Error::from_raw or Protocol::from_raw can come to besides a variant.
PANIC == "panic"

\* transmute(raw as u32): the variant with that discriminant.  A value that is
\* no variant's discriminant is undefined behaviour: any outcome.
Transmute(u) ==
    LET hit == { e \in ErrorNames : ErrorValue[e] = u }
    IN  IF hit # {} THEN hit ELSE ErrorNames \cup {PANIC}

InBlock1(raw) == SCARD_F_INTERNAL_ERROR <= raw /\ raw <= SCARD_E_SERVER_TOO_BUSY

InBlock2(raw) == SCARD_W_UNSUPPORTED_CARD <= raw /\ raw <= SCARD_W_CACHE_ITEM_TOO_BIG

\* A slip in the upper comparison of the first range.
Error_from_raw_strict(raw, dbg) ==
    IF \/ SCARD_F_INTERNAL_ERROR <= raw /\ raw < SCARD_E_SERVER_TOO_BUSY
       \/ SCARD_W_UNSUPPORTED_CARD <= raw /\ raw <= SCARD_W_CACHE_ITEM_TOO_BIG
    THEN Transmute(AsU32(raw))
    ELSE IF dbg THEN {PANIC} ELSE {"UnknownError"}

\* Unknown codes reported as InternalError, the debug assertion left out.
Error_from_raw_internal(raw, dbg) ==
    IF InBlock1(raw) \/ InBlock2(raw)
    THEN Transmute(AsU32(raw))
    ELSE {"InternalError"}

\* Error::from_raw: the set of its outcomes for a raw code, in a build with
\* (dbg) or without debug assertions.
Error_from_raw(raw, dbg) ==
    IF InBlock1(raw) \/ InBlock2(raw)
    THEN Transmute(AsU32(raw))
    ELSE IF dbg THEN {PANIC} ELSE {"UnknownError"}


(***************************************************************************)
(* Bounds of the resource model.                                           *)
(***************************************************************************)
\* Contexts established in a run; the native service has as many context
\* handle values to give out.
MaxCtx == 2

\* Cards connected in a run; the native service has as many card handle
\* values to give out.
MaxCard == 1

CtxIds == 1 .. MaxCtx

CardIds == 1 .. MaxCard

CtxHandles == 1 .. MaxCtx

CardHandles == 1 .. MaxCard

\* The application's threads.  The Contexts are established in one of them,
\* which may hand a Canceler to the other.
Threads == {"main", "helper"}

Establishers == {"main"}

(***************************************************************************)
(* ffi: protocols and the codes the native service answers with.           *)
(***************************************************************************)
\* No protocol: the empty Protocols mask, and what the native service reports
\* when no protocol has been negotiated.
SCARD_PROTOCOL_UNDEFINED == 0

SCARD_PROTOCOL_T0 == 1

SCARD_PROTOCOL_T1 == 2

SCARD_PROTOCOL_RAW == 4

\* A status code of the platform that is no PC/SC code (outside both ranges).
VendorCode == 6

SCARD_E_CANCELLED == FfiCode("Cancelled")

SCARD_E_INVALID_HANDLE == FfiCode("InvalidHandle")

SCARD_E_TIMEOUT == FfiCode("Timeout")

SCARD_F_COMM_ERROR == FfiCode("CommError")

\* Error::NoReadersAvailable as LONG
NoReadersAvailableCode == FfiCode("NoReadersAvailable")

\* The non-success codes a native call on a valid handle may return.
NativeFail == {SCARD_F_COMM_ERROR, VendorCode}

\* The codes of a native call on a handle that is valid or not.
NativeCodes(valid) ==
    IF valid THEN {SCARD_S_SUCCESS} \cup NativeFail ELSE {SCARD_E_INVALID_HANDLE}

\* enum ShareMode
ShareModes == {"Exclusive", "Shared", "Direct"}

\* bitflags Protocols: a mask is the set of its protocol bits
\* (PROTOCOL_UNDEFINED is no bit).  The share modes and masks connect and reconnect are called with: shared
\* with any protocol, exclusive with the raw protocol, and direct or shared
\* with no protocol.
ProtocolArgs ==
    { << "Shared", {SCARD_PROTOCOL_T0, SCARD_PROTOCOL_T1} >>,
      << "Exclusive", {SCARD_PROTOCOL_RAW} >>,
      << "Direct", {} >>,
      << "Shared", {} >> }

\* SCardConnect and SCardReconnect accept an empty mask only for direct access
\* to the reader.
NativeAccepts(share, mask) == mask # {} \/ share = "Direct"

\* The active protocol a successful SCardConnect or SCardReconnect reports: one
\* of the preferred ones; with direct access no protocol need be negotiated,
\* and none is when the mask is empty.
NativeProtocols(share, mask) ==
    mask \cup (IF share = "Direct" THEN {SCARD_PROTOCOL_UNDEFINED} ELSE {})

\* Protocol::from_raw
Protocol_from_raw(raw) ==
    CASE raw = SCARD_PROTOCOL_T0 -> "T0"
      [] raw = SCARD_PROTOCOL_T1 -> "T1"
      [] raw = SCARD_PROTOCOL_RAW -> "RAW"
      [] OTHER -> PANIC

(***************************************************************************)
(* The state.                                                              *)
(***************************************************************************)
VARIABLES
    debug,   \* the build has debug assertions (cfg(debug_assertions))
    ctx,     \* the Context values, by identity
    card,    \* the Card values, by identity, with the Transactions on each
    canc,    \* the handle held by the Cancelers got from each Context (0: none)
    thr,     \* each thread: running, blocked in get_status_change, unwinding
    nctx,    \* native service: the context handles that are valid
    ncard,   \* native service: the card handles given out
    last,    \* the operation of the last step and the native call it issued
    errIn,   \* Error::from_raw alone: its argument
    errOut,  \* Error::from_raw alone: its outcome ("none": not applied yet)
    tm,      \* the timeout of get_status_change alone: Duration, DWORD, result
    rn,      \* a ReaderNames alone: its buffer and position, the names it gave
    bf,      \* a call with an output buffer alone: buffer, native answer, result
    rs,      \* a ReaderState alone, with the reader it names
    tx,      \* the connections to one card alone, with its native lock
    dr       \* a Card and its Transactions alone, with the native calls issued

\* The parts of the library that are followed on their own.
unitvars == << tm, rn, bf, rs, tx, dr >>

vars == << debug, ctx, card, canc, thr, nctx, ncard, last, errIn, errOut, unitvars >>

sysvars == << ctx, card, canc, thr, nctx, ncard, last >>

NoCtx ==
    [st |-> "unborn", handle |-> 0, owner |-> "none",
     closed |-> FALSE, failed |-> FALSE]

\* (active: the active protocol of the native connection, as its last
\* SCardConnect or SCardReconnect that the Card came back from reported it.)
NoCard ==
    [st |-> "unborn", ctx |-> 0, handle |-> 0, proto |-> "none", active |-> -1,
     closed |-> FALSE, ntx |-> 0, txclosed |-> FALSE]

Idle == [st |-> "run", ctx |-> 0, cancelled |-> FALSE]

\* (raw: the active protocol the native call reported, -1 when it reports
\* none; pci: the protocol-control descriptor handed to the native call.)
NoCall ==
    [op |-> "none", native |-> "none", thr |-> "none", ctx |-> 0, card |-> 0,
     code |-> 0, res |-> "none", err |-> "none", raw |-> -1, pci |-> "none"]

Call(op, native, t, c, k, code, o) ==
    [op |-> op, native |-> native, thr |-> t, ctx |-> c, card |-> k,
     code |-> code, res |-> o.res, err |-> o.err, raw |-> -1, pci |-> "none"]

\* A call whose native function has reported an active protocol.
CallRaw(op, native, t, c, k, code, o, raw) ==
    [Call(op, native, t, c, k, code, o) EXCEPT !.raw = raw]

InitSys ==
    /\ ctx = [c \in CtxIds |-> NoCtx]
    /\ card = [k \in CardIds |-> NoCard]
    /\ canc = [c \in CtxIds |-> 0]
    /\ thr = [t \in Threads |-> Idle]
    /\ nctx = {}
    /\ ncard = {}
    /\ last = NoCall

\* Option<Duration>::None
None == [some |-> FALSE, secs |-> << 0, 0, 0, 0 >>, nanos |-> 0]

\* No timeout is being computed (ms: the result, << >> before it is there).
NoTimeout == [width |-> 0, timeout |-> None, ms |-> << >>]

\* No ReaderNames is being read (names: the names the buffer was made of;
\* given: the names next() has returned; nones: how often it returned None).
NoReaderNames ==
    [names |-> << >>, buf |-> << >>, pos |-> 0, given |-> << >>, nones |-> 0]

\* No view of a buffer (of: the buffer viewed, "none", "buffer" for the
\* caller's or "static").
NoView == [of |-> "none", start |-> 0, len |-> 0, bytes |-> << >>]

\* No call with an output buffer is being made.
NoBuffered ==
    [op |-> "none", buffer |-> << >>, out |-> << >>, fate |-> "none",
     code |-> 0, len |-> 0, res |-> "none", err |-> "none", view |-> NoView]

\* A state word of SCARD_READERSTATE: the event count of its high 16 bits
\* and the flags of its low bits.
STATE_UNAWARE == [count |-> 0, flags |-> {}]

\* No ReaderState is followed.
NoReaderState ==
    [st |-> "none", dwCurrentState |-> STATE_UNAWARE, dwEventState |-> STATE_UNAWARE,
     counter |-> 0, present |-> FALSE, events |-> 0,
     synced |-> FALSE, fresh |-> FALSE, since |-> << >>,
     resp |-> "none", prev |-> STATE_UNAWARE, was |-> "none"]

\* No Card is followed.  (asked: the disposition the last explicit disconnect
\* or end asked for and failed with; calls: the native calls issued.)
NoDrops ==
    [st |-> "none", card |-> "none", txn |-> "none",
     asked |-> [card |-> "none", txn |-> "none"], calls |-> << >>]

\* No connection is followed.
NoConnections ==
    [st |-> "none", thread |-> << >>, holder |-> 0, open |-> << >>,
     blocked |-> [t \in Threads |-> 0], op |-> "none", conn |-> 0, res |-> "none"]

InitUnits ==
    /\ tm = NoTimeout
    /\ rn = NoReaderNames
    /\ bf = NoBuffered
    /\ rs = NoReaderState
    /\ tx = NoConnections
    /\ dr = NoDrops

Init ==
    /\ debug \in BOOLEAN
    /\ InitSys
    /\ errIn = 0
    /\ errOut = "none"
    /\ InitUnits

(***************************************************************************)
(* Results.                                                                *)
(***************************************************************************)
OkOutcome == [res |-> "Ok", err |-> "none"]

PanicOutcome == [res |-> "Panic", err |-> "none"]

Discarded == [res |-> "Discarded", err |-> "none"]

\* Err(Error::from_raw(err)); a panic of from_raw unwinds the caller.
ErrOutcomes(code, dbg) ==
    { IF e = PANIC THEN PanicOutcome ELSE [res |-> "Err", err |-> e] :
        e \in Error_from_raw(code, dbg) }

\* try_pcsc! that lets a communication failure through as success.
try_pcsc_swallow(code, dbg) ==
    IF code \in {SCARD_S_SUCCESS, SCARD_F_COMM_ERROR}
    THEN {OkOutcome}
    ELSE ErrOutcomes(code, dbg)

\* try_pcsc!: the success code goes on, any other code returns its Error.
try_pcsc(code, dbg) ==
    IF code = SCARD_S_SUCCESS THEN {OkOutcome} ELSE ErrOutcomes(code, dbg)

\* The thread after a call: a panic starts unwinding it.
After(t, o) ==
    [thr EXCEPT ![t] = IF o.res = "Panic" THEN [Idle EXCEPT !.st = "unwind"]
                       ELSE Idle]

(***************************************************************************)
(* What the compiler allows.                                               *)
(***************************************************************************)
Running(t) == thr[t].st = "run"

\* Scope exit happens in normal flow and while a panic unwinds.
CanDrop(t) == thr[t].st \in {"run", "unwind"}

\* A Context that could be sent to, or shared with, any thread.
SameThread_any(t, c) == t \in Threads /\ c \in CtxIds

\* Context is neither Send nor Sync (PhantomData<*const ()>), and a Card and
\* a Transaction hold a reference to it: all stay in the Context's thread.
SameThread(t, c) == ctx[c].owner = t

\* A Card that held a copy of the handle and no borrow of its Context.
NoBorrow_none(c) == c \in CtxIds

\* Card<'ctx> borrows its Context: the Context can be moved (released) or
\* dropped only when no Card of it is alive.
NoBorrow(c) == \A k \in CardIds : ~(card[k].st = "live" /\ card[k].ctx = c)

\* A Transaction made from &self: it would not lock its Card.
NoTransaction_none(k) == k \in CardIds

\* Transaction<'card> holds the &mut borrow of its Card: while one is alive
\* the Card can be neither borrowed mutably again nor moved nor dropped.
NoTransaction(k) == card[k].ntx = 0

\* The handle values the native service may give out next: a value it has
\* given out before and that is free again, or the first value never used.
\* (Handles are opaque: which unused value comes first does not matter.)
FreeHandles(all, valid, used) ==
    LET fresh == all \ used
    IN  ((all \cap used) \ valid)
           \cup (IF fresh = {} THEN {} ELSE {CHOOSE h \in fresh : \A g \in fresh : h <= g})

CtxHandlesUsed == { ctx[c].handle : c \in CtxIds } \ {0}

LowestUnborn(f, ids) ==
    IF \E i \in ids : f[i].st = "unborn"
    THEN {CHOOSE i \in ids : f[i].st = "unborn" /\ \A j \in ids : j < i => f[j].st # "unborn"}
    ELSE {}

(***************************************************************************)
(* A consumed value after its native call.                                 *)
(***************************************************************************)
\* forget(self) left out: the value stays alive and is dropped later.
Consumed_noforget(rec, code) ==
    IF code = SCARD_S_SUCCESS
    THEN [rec EXCEPT !.closed = TRUE]
    ELSE rec

\* forget(self) on every path: a failed call loses the value too.
Consumed_always(rec, code) ==
    IF code = SCARD_S_SUCCESS
    THEN [rec EXCEPT !.st = "gone", !.closed = TRUE]
    ELSE [rec EXCEPT !.st = "gone"]

\* release(self) and disconnect(self, _): on success forget(self), so that no
\* drop follows; on failure the value goes back to the caller as it was.
\* (closed records that a native call on the value's handle returned success.)
Consumed(rec, code) ==
    IF code = SCARD_S_SUCCESS
    THEN [rec EXCEPT !.st = "gone", !.closed = TRUE]
    ELSE rec

\* History: an explicit release of the Context has failed.
Noted(rec, code) ==
    IF code = SCARD_S_SUCCESS THEN rec ELSE [rec EXCEPT !.failed = TRUE]

\* Drop: the value is gone whatever the native call returned.
Dropped(rec, code) ==
    [rec EXCEPT !.st = "gone", !.closed = @ \/ code = SCARD_S_SUCCESS]

(***************************************************************************)
(* Context                                                                 *)
(***************************************************************************)
\* SCardEstablishContext succeeds only while a handle value is free.
EstablishCodes ==
    (IF FreeHandles(CtxHandles, nctx, CtxHandlesUsed) # {} THEN {SCARD_S_SUCCESS} ELSE {})
        \cup NativeFail

\* Context::establish
Establish(t) ==
    /\ t \in Establishers
    /\ Running(t)
    /\ \E c \in LowestUnborn(ctx, CtxIds) :
       \E code \in EstablishCodes :
       \E o \in try_pcsc(code, debug) :
          /\ IF code = SCARD_S_SUCCESS
             THEN \E h \in FreeHandles(CtxHandles, nctx, CtxHandlesUsed) :
                     /\ ctx' = [ctx EXCEPT ![c] =
                                  [NoCtx EXCEPT !.st = "live", !.handle = h, !.owner = t]]
                     /\ nctx' = nctx \cup {h}
                     /\ last' = Call("Context::establish", "SCardEstablishContext",
                                     t, c, 0, code, o)
             ELSE /\ UNCHANGED << ctx, nctx >>
                  /\ last' = Call("Context::establish", "SCardEstablishContext",
                                  t, 0, 0, code, o)
          /\ thr' = After(t, o)
    /\ UNCHANGED << debug, card, canc, ncard, errIn, errOut, unitvars >>

\* Context::release
Release(t, c) ==
    /\ Running(t)
    /\ ctx[c].st = "live"
    /\ SameThread(t, c)
    /\ NoBorrow(c)
    /\ \E code \in NativeCodes(ctx[c].handle \in nctx) :
       \E o \in IF code = SCARD_S_SUCCESS THEN {OkOutcome} ELSE ErrOutcomes(code, debug) :
          /\ ctx' = [ctx EXCEPT ![c] = Noted(Consumed(ctx[c], code), code)]
          /\ nctx' = IF code = SCARD_S_SUCCESS THEN nctx \ {ctx[c].handle} ELSE nctx
          /\ thr' = After(t, o)
          /\ last' = Call("Context::release", "SCardReleaseContext", t, c, 0, code, o)
    /\ UNCHANGED << debug, card, canc, ncard, errIn, errOut, unitvars >>

\* Drop for Context
DropContext(t, c) ==
    /\ CanDrop(t)
    /\ ctx[c].st = "live"
    /\ SameThread(t, c)
    /\ NoBorrow(c)
    /\ \E code \in NativeCodes(ctx[c].handle \in nctx) :
          /\ ctx' = [ctx EXCEPT ![c] = Dropped(ctx[c], code)]
          /\ nctx' = IF code = SCARD_S_SUCCESS THEN nctx \ {ctx[c].handle} ELSE nctx
          /\ last' = Call("Drop for Context", "SCardReleaseContext", t, c, 0, code,
                          Discarded)
    /\ UNCHANGED << debug, card, canc, thr, ncard, errIn, errOut, unitvars >>

\* Context::is_valid
IsValid(t, c) ==
    /\ Running(t)
    /\ ctx[c].st = "live"
    /\ SameThread(t, c)
    /\ \E code \in NativeCodes(ctx[c].handle \in nctx) :
       \E o \in try_pcsc(code, debug) :
          /\ thr' = After(t, o)
          /\ last' = Call("Context::is_valid", "SCardIsValidContext", t, c, 0, code, o)
    /\ UNCHANGED << debug, ctx, card, canc, nctx, ncard, errIn, errOut, unitvars >>

\* A Canceler that holds no handle.
CancelerHandle_none(rec) == 0

\* The Canceler's handle is some other handle than the Context's.
CancelerHandle_other(rec) == (rec.handle % MaxCtx) + 1

\* Canceler { handle: self.handle }
CancelerHandle(rec) == rec.handle

\* Context::get_canceler
GetCanceler(t, c) ==
    /\ Running(t)
    /\ ctx[c].st = "live"
    /\ SameThread(t, c)
    /\ canc' = [canc EXCEPT ![c] = CancelerHandle(ctx[c])]
    /\ last' = Call("Context::get_canceler", "none", t, c, 0, 0, OkOutcome)
    /\ UNCHANGED << debug, ctx, card, thr, nctx, ncard, errIn, errOut, unitvars >>

\* Context::list_readers: no-readers-available is turned into an empty list.
ListReaders(t, c) ==
    /\ Running(t)
    /\ ctx[c].st = "live"
    /\ SameThread(t, c)
    /\ \E code \in NativeCodes(ctx[c].handle \in nctx)
                     \cup (IF ctx[c].handle \in nctx THEN {NoReadersAvailableCode} ELSE {}) :
       \E o \in IF code = NoReadersAvailableCode
                THEN {OkOutcome}
                ELSE IF code # SCARD_S_SUCCESS
                     THEN ErrOutcomes(code, debug)
                     ELSE {OkOutcome} :
          /\ thr' = After(t, o)
          /\ last' = Call("Context::list_readers", "SCardListReaders", t, c, 0, code, o)
    /\ UNCHANGED << debug, ctx, card, canc, nctx, ncard, errIn, errOut, unitvars >>

\* SCardConnect succeeds only while a handle value is free, and only with a
\* share mode and a mask it accepts.
ConnectCodes(c, share, mask) ==
    NativeCodes(ctx[c].handle \in nctx)
        \ (IF FreeHandles(CardHandles, ncard, ncard) # {} /\ NativeAccepts(share, mask)
           THEN {}
           ELSE {SCARD_S_SUCCESS})

\* Context::connect
Connect(t, c) ==
    /\ Running(t)
    /\ ctx[c].st = "live"
    /\ SameThread(t, c)
    /\ \E k \in LowestUnborn(card, CardIds) :
       \E args \in ProtocolArgs :
       \E code \in ConnectCodes(c, args[1], args[2]) :
          IF code = SCARD_S_SUCCESS
          THEN \E h \in FreeHandles(CardHandles, ncard, ncard),
                  raw \in NativeProtocols(args[1], args[2]) :
                  /\ ncard' = ncard \cup {h}
                  /\ IF Protocol_from_raw(raw) = PANIC
                     THEN /\ card' = card
                          /\ thr' = After(t, PanicOutcome)
                          /\ last' = CallRaw("Context::connect", "SCardConnect", t, c,
                                             0, code, PanicOutcome, raw)
                     ELSE /\ card' = [card EXCEPT ![k] =
                                        [NoCard EXCEPT !.st = "live", !.ctx = c,
                                                       !.handle = h,
                                                       !.proto = Protocol_from_raw(raw),
                                                       !.active = raw]]
                          /\ thr' = After(t, OkOutcome)
                          /\ last' = CallRaw("Context::connect", "SCardConnect", t, c,
                                             k, code, OkOutcome, raw)
          ELSE \E o \in try_pcsc(code, debug) :
                  /\ UNCHANGED << card, ncard >>
                  /\ thr' = After(t, o)
                  /\ last' = Call("Context::connect", "SCardConnect", t, c, 0, code, o)
    /\ UNCHANGED << debug, ctx, canc, nctx, errIn, errOut, unitvars >>

\* Context::get_status_change: the call is issued and the thread blocks in it.
GetStatusChange(t, c) ==
    /\ Running(t)
    /\ ctx[c].st = "live"
    /\ SameThread(t, c)
    /\ thr' = [thr EXCEPT ![t] = [st |-> "wait", ctx |-> c, cancelled |-> FALSE]]
    /\ last' = Call("Context::get_status_change", "SCardGetStatusChange", t, c, 0, 0,
                    [res |-> "Blocked", err |-> "none"])
    /\ UNCHANGED << debug, ctx, card, canc, nctx, ncard, errIn, errOut, unitvars >>

\* SCardGetStatusChange: a cancelled wait ends with SCARD_E_CANCELLED; another
\* ends, if it ends, with a change, an error or (the timeout being finite) a
\* timeout.
WaitCodes(w) ==
    IF w.cancelled
    THEN {SCARD_E_CANCELLED}
    ELSE NativeCodes(ctx[w.ctx].handle \in nctx) \cup {SCARD_E_TIMEOUT}

\* Context::get_status_change: the native call returns.
WaitReturn(t) ==
    /\ thr[t].st = "wait"
    /\ \E code \in WaitCodes(thr[t]) :
       \E o \in try_pcsc(code, debug) :
          /\ thr' = After(t, o)
          /\ last' = Call("Context::get_status_change", "SCardGetStatusChange",
                          t, thr[t].ctx, 0, code, o)
    /\ UNCHANGED << debug, ctx, card, canc, nctx, ncard, errIn, errOut, unitvars >>

\* A cancel that reaches every outstanding wait, whatever its context.
NativeCancel_all(h) ==
    [t \in Threads |->
        IF thr[t].st = "wait"
        THEN [thr[t] EXCEPT !.cancelled = TRUE]
        ELSE thr[t]]

\* SCardCancel(h): the waits outstanding on a context with handle h are
\* cancelled; a handle that is no valid context is refused.
NativeCancel(h) ==
    [t \in Threads |->
        IF thr[t].st = "wait" /\ ctx[thr[t].ctx].handle = h
        THEN [thr[t] EXCEPT !.cancelled = TRUE]
        ELSE thr[t]]

\* Canceler::cancel, from any thread, on a Canceler got from Context c.
Cancel(t, c) ==
    /\ Running(t)
    /\ canc[c] # 0
    /\ \E code \in {IF canc[c] \in nctx THEN SCARD_S_SUCCESS ELSE SCARD_E_INVALID_HANDLE} :
       \E o \in try_pcsc(code, debug) :
          /\ thr' = IF code = SCARD_S_SUCCESS THEN NativeCancel(canc[c]) ELSE After(t, o)
          /\ last' = Call("Canceler::cancel", "SCardCancel", t, c, 0, code, o)
    /\ UNCHANGED << debug, ctx, card, canc, nctx, ncard, errIn, errOut, unitvars >>

(***************************************************************************)
(* Card                                                                    *)
(***************************************************************************)
\* The operations of a Card stay in the thread of its Context, and need the
\* Card alive.
CardUsable(t, k) ==
    /\ card[k].st = "live"
    /\ SameThread(t, card[k].ctx)

\* A method taking &self is called on the Card or, while a Transaction holds
\* the Card, through the Transaction (Deref for Transaction, Target = Card).
SharedRef(t, k) == CardUsable(t, k)

\* Card::transaction
Transaction(t, k) ==
    /\ Running(t)
    /\ CardUsable(t, k)
    /\ NoTransaction(k)
    /\ \E code \in NativeCodes(TRUE) :
       \E o \in try_pcsc(code, debug) :
          /\ card' = IF code = SCARD_S_SUCCESS
                     THEN [card EXCEPT ![k].ntx = @ + 1, ![k].txclosed = FALSE]
                     ELSE card
          /\ thr' = After(t, o)
          /\ last' = Call("Card::transaction", "SCardBeginTransaction", t,
                          card[k].ctx, k, code, o)
    /\ UNCHANGED << debug, ctx, canc, nctx, ncard, errIn, errOut, unitvars >>

\* A reconnect that leaves the recorded protocol as it was.
Reconnected_stale(rec, raw) == [rec EXCEPT !.active = raw]

\* self.active_protocol = Protocol::from_raw(raw_active_protocol)
Reconnected(rec, raw) ==
    [rec EXCEPT !.proto = Protocol_from_raw(raw), !.active = raw]

\* Card::reconnect (&mut self: not while a Transaction is alive)
Reconnect(t, k) ==
    /\ Running(t)
    /\ CardUsable(t, k)
    /\ NoTransaction(k)
    /\ \E args \in ProtocolArgs :
       \E code \in NativeCodes(TRUE)
                     \ (IF NativeAccepts(args[1], args[2]) THEN {} ELSE {SCARD_S_SUCCESS}) :
          IF code = SCARD_S_SUCCESS
          THEN \E raw \in NativeProtocols(args[1], args[2]) :
                  IF Protocol_from_raw(raw) = PANIC
                  THEN /\ card' = card
                       /\ thr' = After(t, PanicOutcome)
                       /\ last' = CallRaw("Card::reconnect", "SCardReconnect", t,
                                          card[k].ctx, k, code, PanicOutcome, raw)
                  ELSE /\ card' = [card EXCEPT ![k] = Reconnected(card[k], raw)]
                       /\ thr' = After(t, OkOutcome)
                       /\ last' = CallRaw("Card::reconnect", "SCardReconnect", t,
                                          card[k].ctx, k, code, OkOutcome, raw)
          ELSE \E o \in try_pcsc(code, debug) :
                  /\ card' = card
                  /\ thr' = After(t, o)
                  /\ last' = Call("Card::reconnect", "SCardReconnect", t,
                                  card[k].ctx, k, code, o)
    /\ UNCHANGED << debug, ctx, canc, nctx, ncard, errIn, errOut, unitvars >>

\* Card::disconnect
Disconnect(t, k) ==
    /\ Running(t)
    /\ CardUsable(t, k)
    /\ NoTransaction(k)
    /\ \E code \in NativeCodes(TRUE) :
       \E o \in IF code = SCARD_S_SUCCESS THEN {OkOutcome} ELSE ErrOutcomes(code, debug) :
          /\ card' = [card EXCEPT ![k] = Consumed(card[k], code)]
          /\ thr' = After(t, o)
          /\ last' = Call("Card::disconnect", "SCardDisconnect", t, card[k].ctx, k,
                          code, o)
    /\ UNCHANGED << debug, ctx, canc, nctx, ncard, errIn, errOut, unitvars >>

\* Drop for Card
DropCard(t, k) ==
    /\ CanDrop(t)
    /\ CardUsable(t, k)
    /\ NoTransaction(k)
    /\ \E code \in NativeCodes(TRUE) :
          /\ card' = [card EXCEPT ![k] = Dropped(card[k], code)]
          /\ last' = Call("Drop for Card", "SCardDisconnect", t, card[k].ctx, k, code,
                          Discarded)
    /\ UNCHANGED << debug, ctx, canc, thr, nctx, ncard, errIn, errOut, unitvars >>

\* SCardStatus reports a protocol: that of the connection, or any other.
StatusProtocols(k) ==
    {SCARD_PROTOCOL_UNDEFINED, SCARD_PROTOCOL_T0, SCARD_PROTOCOL_T1, SCARD_PROTOCOL_RAW}

\* A status that records the protocol it decoded.
StatusOf_recorded(rec, raw) == [rec EXCEPT !.proto = Protocol_from_raw(raw)]

\* Card::status takes &self: the Card after it is the Card before it.
StatusOf(rec, raw) == rec

\* Card::status: the reported protocol is decoded and returned, not recorded.
Status(t, k) ==
    /\ Running(t)
    /\ SharedRef(t, k)
    /\ \E code \in NativeCodes(TRUE) :
          IF code = SCARD_S_SUCCESS
          THEN \E raw \in StatusProtocols(k) :
               \E o \in {IF Protocol_from_raw(raw) = PANIC THEN PanicOutcome ELSE OkOutcome} :
                  /\ card' = [card EXCEPT ![k] = StatusOf(card[k], raw)]
                  /\ thr' = After(t, o)
                  /\ last' = CallRaw("Card::status", "SCardStatus", t, card[k].ctx, k,
                                     code, o, raw)
          ELSE \E o \in try_pcsc(code, debug) :
                  /\ card' = card
                  /\ thr' = After(t, o)
                  /\ last' = Call("Card::status", "SCardStatus", t, card[k].ctx, k,
                                  code, o)
    /\ UNCHANGED << debug, ctx, canc, nctx, ncard, errIn, errOut, unitvars >>

\* An operation of a Card that takes &self and only maps the native code.
CardCall(t, k, op, native, codes) ==
    /\ Running(t)
    /\ SharedRef(t, k)
    /\ \E code \in codes :
       \E o \in try_pcsc(code, debug) :
          /\ thr' = After(t, o)
          /\ last' = Call(op, native, t, card[k].ctx, k, code, o)
    /\ UNCHANGED << debug, ctx, card, canc, nctx, ncard, errIn, errOut, unitvars >>

\* Card::get_attribute
GetAttribute(t, k) ==
    CardCall(t, k, "Card::get_attribute", "SCardGetAttrib", NativeCodes(TRUE))

\* Card::set_attribute
SetAttribute(t, k) ==
    CardCall(t, k, "Card::set_attribute", "SCardSetAttrib", NativeCodes(TRUE))

\* get_protocol_pci: the static descriptor of a protocol
get_protocol_pci(protocol) ==
    CASE protocol = "T0" -> "g_rgSCardT0Pci"
      [] protocol = "T1" -> "g_rgSCardT1Pci"
      [] protocol = "RAW" -> "g_rgSCardRawPci"

\* Card::transmit: the send descriptor is that of self.active_protocol
Transmit(t, k) ==
    /\ Running(t)
    /\ SharedRef(t, k)
    /\ \E code \in NativeCodes(TRUE) :
       \E o \in try_pcsc(code, debug) :
          /\ thr' = After(t, o)
          /\ last' = [Call("Card::transmit", "SCardTransmit", t, card[k].ctx, k, code, o)
                        EXCEPT !.pci = get_protocol_pci(card[k].proto)]
    /\ UNCHANGED << debug, ctx, card, canc, nctx, ncard, errIn, errOut, unitvars >>

(***************************************************************************)
(* Transaction                                                             *)
(***************************************************************************)
\* Transaction::end: on success forget(self); on failure the Transaction goes
\* back to the caller.
Ended(rec, code) ==
    IF code = SCARD_S_SUCCESS
    THEN [rec EXCEPT !.ntx = @ - 1, !.txclosed = TRUE]
    ELSE rec

\* Transaction::end
End(t, k) ==
    /\ Running(t)
    /\ CardUsable(t, k)
    /\ card[k].ntx > 0
    /\ \E code \in NativeCodes(TRUE) :
       \E o \in IF code # 0 THEN ErrOutcomes(code, debug) ELSE {OkOutcome} :
          /\ card' = [card EXCEPT ![k] = Ended(card[k], code)]
          /\ thr' = After(t, o)
          /\ last' = Call("Transaction::end", "SCardEndTransaction", t, card[k].ctx,
                          k, code, o)
    /\ UNCHANGED << debug, ctx, canc, nctx, ncard, errIn, errOut, unitvars >>

\* Drop for Transaction
DropTransaction(t, k) ==
    /\ CanDrop(t)
    /\ CardUsable(t, k)
    /\ card[k].ntx > 0
    /\ \E code \in NativeCodes(TRUE) :
          /\ card' = [card EXCEPT ![k].ntx = @ - 1,
                                  ![k].txclosed = @ \/ code = SCARD_S_SUCCESS]
          /\ last' = Call("Drop for Transaction", "SCardEndTransaction", t,
                          card[k].ctx, k, code, Discarded)
    /\ UNCHANGED << debug, ctx, canc, thr, nctx, ncard, errIn, errOut, unitvars >>

(***************************************************************************)
(* The specification of the library under any application.                 *)
(***************************************************************************)
Next ==
    \E t \in Threads :
       \/ Establish(t)
       \/ WaitReturn(t)
       \/ \E c \in CtxIds :
             \/ Release(t, c)
             \/ DropContext(t, c)
             \/ IsValid(t, c)
             \/ GetCanceler(t, c)
             \/ ListReaders(t, c)
             \/ Connect(t, c)
             \/ GetStatusChange(t, c)
             \/ Cancel(t, c)
       \/ \E k \in CardIds :
             \/ Transaction(t, k)
             \/ Reconnect(t, k)
             \/ Disconnect(t, k)
             \/ DropCard(t, k)
             \/ Status(t, k)
             \/ GetAttribute(t, k)
             \/ SetAttribute(t, k)
             \/ Transmit(t, k)
             \/ End(t, k)
             \/ DropTransaction(t, k)

Spec == Init /\ [][Next]_vars

\* A cancelled SCardGetStatusChange returns: the native service does not keep
\* a cancelled wait blocked.
FairSpec ==
    Spec /\ \A t \in Threads : WF_vars(WaitReturn(t) /\ thr[t].cancelled)

(***************************************************************************)
(* Error::from_raw on its own: a raw code is drawn and mapped.             *)
(***************************************************************************)
RawInputs ==
    ((SCARD_F_INTERNAL_ERROR - Margin) .. (SCARD_E_SERVER_TOO_BUSY + Margin))
      \cup ((SCARD_W_UNSUPPORTED_CARD - Margin) .. (SCARD_W_CACHE_ITEM_TOO_BIG + Margin))
      \cup {SCARD_S_SUCCESS, VendorCode, 1, -1, 1048577, 2147483647, (-2147483647) - 1}

InitErr ==
    /\ debug \in BOOLEAN
    /\ InitSys
    /\ errIn \in RawInputs
    /\ errOut = "none"
    /\ InitUnits

FromRaw ==
    /\ errOut = "none"
    /\ errOut' \in Error_from_raw(errIn, debug)
    /\ UNCHANGED << debug, sysvars, errIn, unitvars >>

NextErr == FromRaw

SpecErr == InitErr /\ [][NextErr]_vars

(***************************************************************************)
(* The timeout of Context::get_status_change on its own.  A u64 is the     *)
(* sequence of its four 16-bit limbs, the lowest first; a DWORD of 32 bits *)
(* has its two upper limbs 0.                                              *)
(***************************************************************************)
Limb == 65536

U64_MAX == << 65535, 65535, 65535, 65535 >>

\* ffi::INFINITE: 0xFFFFFFFF, for a DWORD of 32 and of 64 bits.
INFINITE == << 65535, 65535, 0, 0 >>

\* a < b, for numbers of as many limbs
LimbsLess(a, b) ==
    \E i \in DOMAIN a :
       /\ a[i] < b[i]
       /\ \A j \in DOMAIN a : j > i => a[j] = b[j]

\* u64::saturating_mul by a factor below 2^15
saturating_mul(x, m) ==
    LET p1 == x[1] * m
        p2 == x[2] * m + (p1 \div Limb)
        p3 == x[3] * m + (p2 \div Limb)
        p4 == x[4] * m + (p3 \div Limb)
    IN  IF p4 \div Limb > 0
        THEN U64_MAX
        ELSE << p1 % Limb, p2 % Limb, p3 % Limb, p4 % Limb >>

\* u64::saturating_add of a number below 2^16
saturating_add(x, a) ==
    LET s1 == x[1] + a
        s2 == x[2] + (s1 \div Limb)
        s3 == x[3] + (s2 \div Limb)
        s4 == x[4] + (s3 \div Limb)
    IN  IF s4 \div Limb > 0
        THEN U64_MAX
        ELSE << s1 % Limb, s2 % Limb, s3 % Limb, s4 % Limb >>

\* `x as DWORD` of a u64: the low bits that fit.
AsDWORD(x, width) == IF width = 32 THEN << x[1], x[2], 0, 0 >> ELSE x

\* std::cmp::min
Min(a, b) == IF LimbsLess(b, a) THEN b ELSE a

\* The timeout_ms of get_status_change for Some(duration) or None.
TimeoutMs(timeout, width) ==
    IF ~timeout.some
    THEN INFINITE
    ELSE LET timeout_ms_u64 ==
                 saturating_add(saturating_mul(timeout.secs, 1000),
                                timeout.nanos \div 1000000)
         IN  Min(INFINITE, AsDWORD(timeout_ms_u64, width))

\* Duration::as_secs() of the durations tried: 0, 1, 59, 4294967 and 4294968
\* (the milliseconds pass 2^32 between them), 8589934 and 8589935 (they pass
\* 2^33), 18446744073709551 and 18446744073709552 (they pass 2^64), and
\* u64::MAX.
DurationSecs ==
    { << 0, 0, 0, 0 >>, << 1, 0, 0, 0 >>, << 59, 0, 0, 0 >>,
      << 35127, 65, 0, 0 >>, << 35128, 65, 0, 0 >>,
      << 4718, 131, 0, 0 >>, << 4719, 131, 0, 0 >>,
      << 42991, 19398, 35127, 65 >>, << 42992, 19398, 35127, 65 >>,
      U64_MAX }

\* Duration::subsec_nanos() of the durations tried
DurationNanos == {0, 999999, 1000000, 295000000, 296000000, 999999999}

Timeouts ==
    {None} \cup [some : {TRUE}, secs : DurationSecs, nanos : DurationNanos]

\* The widths of DWORD: 32 bits (Windows, macOS) and 64 bits (pcsc-lite on
\* LP64).
DWORDWidths == {32, 64}

InitTimeout ==
    /\ debug = FALSE
    /\ InitSys
    /\ errIn = 0
    /\ errOut = "none"
    /\ tm \in [width : DWORDWidths, timeout : Timeouts, ms : {<< >>}]
    /\ rn = NoReaderNames
    /\ bf = NoBuffered
    /\ rs = NoReaderState
    /\ tx = NoConnections
    /\ dr = NoDrops

\* get_status_change computes the timeout it hands to SCardGetStatusChange.
ComputeTimeout ==
    /\ tm.ms = << >>
    /\ tm.width # 0
    /\ tm' = [tm EXCEPT !.ms = TimeoutMs(tm.timeout, tm.width)]
    /\ UNCHANGED << debug, sysvars, errIn, errOut, rn, bf, rs, tx, dr >>

NextTimeout == ComputeTimeout

SpecTimeout == InitTimeout /\ [][NextTimeout]_vars

(***************************************************************************)
(* ReaderNames on its own: the iterator over the names in a buffer.        *)
(***************************************************************************)
\* Names in a buffer in a run, and bytes in a name.
MaxNames == 2

MaxNameLen == 2

\* The bytes of names: 'A' and 'B'.
NameBytes == {65, 66}

\* iter().position(|&c| c == 0) over buf[pos..]: the offset of the first NUL,
\* -1 for None.
Position(buf, pos) ==
    LET nuls == { i \in (pos + 1) .. Len(buf) : buf[i] = 0 }
    IN  IF nuls = {}
        THEN -1
        ELSE (CHOOSE i \in nuls : \A j \in nuls : i <= j) - (pos + 1)

\* The step after a name that forgets its terminating NUL.
Advance_nonul(pos, len) == pos + len

\* self.pos += len + 1
Advance(pos, len) == pos + len + 1

\* A next() that steps over an empty name.
ReaderNames_next_skip(buf, pos) ==
    LET len == Position(buf, pos)
    IN  IF len = -1
        THEN [item |-> << >>, pos |-> pos]
        ELSE IF len = 0
             THEN [item |-> << >>, pos |-> pos + 1]
             ELSE [item |-> SubSeq(buf, pos + 1, pos + len), pos |-> Advance(pos, len)]

\* ReaderNames::next: the item (<< >> for None, else the name: the bytes of
\* the CStr before its NUL) and the position afterwards.
ReaderNames_next(buf, pos) ==
    LET len == Position(buf, pos)
    IN  IF len = -1 \/ len = 0
        THEN [item |-> << >>, pos |-> pos]
        ELSE [item |-> SubSeq(buf, pos + 1, pos + len), pos |-> Advance(pos, len)]

\* The non-empty, NUL-free names tried.
NameSet == UNION { [1 .. n -> NameBytes] : n \in 1 .. MaxNameLen }

NameLists == UNION { [1 .. n -> NameSet] : n \in 0 .. MaxNames }

\* What the native service writes for a list of names: each name followed by
\* a NUL, then one more NUL.
RECURSIVE MultiString(_)
MultiString(names) ==
    IF names = << >>
    THEN << 0 >>
    ELSE Head(names) \o << 0 >> \o MultiString(Tail(names))

InitNames ==
    /\ debug = FALSE
    /\ InitSys
    /\ errIn = 0
    /\ errOut = "none"
    /\ tm = NoTimeout
    /\ bf = NoBuffered
    /\ rs = NoReaderState
    /\ tx = NoConnections
    /\ dr = NoDrops
    /\ \E names \in NameLists :
          rn = [names |-> names, buf |-> MultiString(names), pos |-> 0,
                given |-> << >>, nones |-> 0]

\* One call of next(); after the first None, one call more.
NextName ==
    /\ rn.buf # << >>
    /\ rn.nones < 2
    /\ LET r == ReaderNames_next(rn.buf, rn.pos)
       IN  rn' = IF r.item = << >>
                 THEN [rn EXCEPT !.pos = r.pos, !.nones = @ + 1]
                 ELSE [rn EXCEPT !.pos = r.pos, !.given = Append(@, r.item)]
    /\ UNCHANGED << debug, sysvars, errIn, errOut, tm, bf, rs, tx, dr >>

NextNames == NextName

SpecNames == InitNames /\ [][NextNames]_vars

(***************************************************************************)
(* A ReaderNames over any bytes, and a clone of it.                        *)
(***************************************************************************)
\* The longest buffer tried.
MaxBytes == 5

\* The bytes of the buffers: NUL and 'A'.
Buffers == UNION { [1 .. n -> {0, 65}] : n \in 0 .. MaxBytes }

\* A cursor after one more call of next() on it.
Called(buf, c) ==
    LET r == ReaderNames_next(buf, c.pos)
    IN  IF r.item = << >>
        THEN [c EXCEPT !.pos = r.pos, !.nones = @ + 1]
        ELSE [c EXCEPT !.pos = r.pos, !.given = Append(@, r.item)]

\* A clone that starts over from the beginning of the buffer.
Clone_rewound(c) == [st |-> "live", pos |-> 0, given |-> << >>, nones |-> 0]

\* #[derive(Clone)]: the same buffer, the same position.  (given and nones
\* record what the clone has yielded.)
Clone(c) == [st |-> "live", pos |-> c.pos, given |-> << >>, nones |-> 0]

\* No clone is taken.
NoClone == [st |-> "none", pos |-> 0, given |-> << >>, nones |-> 0]

InitCursor ==
    /\ debug = FALSE
    /\ InitSys
    /\ errIn = 0
    /\ errOut = "none"
    /\ tm = NoTimeout
    /\ bf = NoBuffered
    /\ rs = NoReaderState
    /\ tx = NoConnections
    /\ dr = NoDrops
    /\ \E buf \in Buffers :
          rn = [st |-> "live", buf |-> buf, pos |-> 0, given |-> << >>, nones |-> 0,
                from |-> 0, cl |-> NoClone]

\* next() on the original; after the first None, one call more.
NextOfOriginal ==
    /\ rn.st = "live"
    /\ rn.nones < 2
    /\ rn' = Called(rn.buf, rn)
    /\ UNCHANGED << debug, sysvars, errIn, errOut, tm, bf, rs, tx, dr >>

\* clone() (from: the number of names the original had yielded)
CloneCursor ==
    /\ rn.st = "live"
    /\ rn.cl.st = "none"
    /\ rn' = [rn EXCEPT !.cl = Clone(rn), !.from = Len(rn.given)]
    /\ UNCHANGED << debug, sysvars, errIn, errOut, tm, bf, rs, tx, dr >>

\* next() on the clone
NextOfClone ==
    /\ rn.st = "live"
    /\ rn.cl.st = "live"
    /\ rn.cl.nones < 2
    /\ rn' = [rn EXCEPT !.cl = Called(rn.buf, rn.cl)]
    /\ UNCHANGED << debug, sysvars, errIn, errOut, tm, bf, rs, tx, dr >>

NextCursor == NextOfOriginal \/ CloneCursor \/ NextOfClone

SpecCursor == InitCursor /\ [][NextCursor]_vars

(***************************************************************************)
(* The calls with an output buffer on their own: list_readers,             *)
(* get_attribute and transmit hand the caller's buffer and its length to   *)
(* the native call and return a view of what it wrote.                     *)
(***************************************************************************)
\* The longest buffer tried; the native service has up to one byte more to
\* write.
MaxBuf == 3

BufferOps == {"Context::list_readers", "Card::get_attribute", "Card::transmit"}

\* The bytes the native service writes (0x00 and 0x90) and the byte the
\* caller's buffer holds before (0xAA).
OutBytes == {0, 144}

Filler == 170

NativeOutputs == UNION { [1 .. n -> OutBytes] : n \in 0 .. (MaxBuf + 1) }

SCARD_E_INSUFFICIENT_BUFFER == FfiCode("InsufficientBuffer")

\* How the native call goes: it serves the request, or fails.
NativeFates(op) ==
    {"serve", "comm", "vendor"}
       \cup (IF op = "Context::list_readers" THEN {"noreaders"} ELSE {})

\* SCardListReaders, SCardGetAttrib, SCardTransmit with a buffer and its
\* length: the code, the length reported and the buffer afterwards.  Output
\* that does not fit is refused with the length needed, the buffer written in
\* part; a failure leaves length and buffer alone.
NativeWrite(buffer, out, fate) ==
    IF fate = "serve"
    THEN IF Len(out) > Len(buffer)
         THEN { [code |-> SCARD_E_INSUFFICIENT_BUFFER, len |-> Len(out),
                 buffer |-> SubSeq(out, 1, n) \o SubSeq(buffer, n + 1, Len(buffer))] :
                   n \in 0 .. Len(buffer) }
         ELSE { [code |-> SCARD_S_SUCCESS, len |-> Len(out),
                 buffer |-> out \o SubSeq(buffer, Len(out) + 1, Len(buffer))] }
    ELSE { [code |-> CASE fate = "comm" -> SCARD_F_COMM_ERROR
                       [] fate = "vendor" -> VendorCode
                       [] fate = "noreaders" -> NoReadersAvailableCode,
            len |-> Len(buffer), buffer |-> buffer] }

\* A view of the whole buffer, whatever the length reported.
Slice_whole(buffer, len) ==
    [res |-> "Ok", err |-> "none",
     view |-> [of |-> "buffer", start |-> 0, len |-> Len(buffer), bytes |-> buffer]]

\* Ok(&buffer[0..len as usize]): a range past the end of the buffer panics.
Slice(buffer, len) ==
    IF len > Len(buffer)
    THEN [res |-> "Panic", err |-> "none", view |-> NoView]
    ELSE [res |-> "Ok", err |-> "none",
          view |-> [of |-> "buffer", start |-> 0, len |-> len,
                    bytes |-> SubSeq(buffer, 1, len)]]

\* Err(Error::from_raw(err)), with no view
Failed(code, dbg) ==
    { [res |-> o.res, err |-> o.err, view |-> NoView] : o \in ErrOutcomes(code, dbg) }

\* ReaderNames { buf: b"\0", pos: 0 }
StaticNul ==
    [res |-> "Ok", err |-> "none",
     view |-> [of |-> "static", start |-> 0, len |-> 1, bytes |-> << 0 >>]]

\* list_readers without the branch for no readers.
list_readers_strict(nat, dbg) ==
    IF nat.code # SCARD_S_SUCCESS
    THEN Failed(nat.code, dbg)
    ELSE {Slice(nat.buffer, nat.len)}

\* Context::list_readers after the native call
list_readers(nat, dbg) ==
    IF nat.code = NoReadersAvailableCode
    THEN {StaticNul}
    ELSE IF nat.code # SCARD_S_SUCCESS
         THEN Failed(nat.code, dbg)
         ELSE {Slice(nat.buffer, nat.len)}

\* Card::get_attribute and Card::transmit after the native call
get_attribute(nat, dbg) ==
    IF nat.code # SCARD_S_SUCCESS
    THEN Failed(nat.code, dbg)
    ELSE {Slice(nat.buffer, nat.len)}

InitBuffered ==
    /\ debug \in BOOLEAN
    /\ InitSys
    /\ errIn = 0
    /\ errOut = "none"
    /\ tm = NoTimeout
    /\ rn = NoReaderNames
    /\ rs = NoReaderState
    /\ tx = NoConnections
    /\ dr = NoDrops
    /\ \E op \in BufferOps, cap \in 0 .. MaxBuf, out \in NativeOutputs :
       \E fate \in NativeFates(op) :
          bf = [NoBuffered EXCEPT !.op = op, !.buffer = [i \in 1 .. cap |-> Filler],
                                  !.out = out, !.fate = fate]

\* The call is made and returns.
CallBuffered ==
    /\ bf.op # "none"
    /\ bf.res = "none"
    /\ \E nat \in NativeWrite(bf.buffer, bf.out, bf.fate) :
       \E r \in IF bf.op = "Context::list_readers"
                THEN list_readers(nat, debug)
                ELSE get_attribute(nat, debug) :
          bf' = [bf EXCEPT !.code = nat.code, !.len = nat.len, !.res = r.res,
                           !.err = r.err, !.view = r.view]
    /\ UNCHANGED << debug, sysvars, errIn, errOut, tm, rn, rs, tx, dr >>

NextBuffered == CallBuffered

SpecBuffered == InitBuffered /\ [][NextBuffered]_vars

(***************************************************************************)
(* A ReaderState on its own, with the reader it names: cards go in and     *)
(* out, get_status_change has the native service write the record, and     *)
(* the application syncs it.                                               *)
(***************************************************************************)
\* The card events followed.
MaxEvents == 2

\* The flags of State (STATE_UNAWARE is no flag).
StateFlags ==
    {"IGNORE", "CHANGED", "UNKNOWN", "UNAVAILABLE", "EMPTY", "PRESENT",
     "ATRMATCH", "EXCLUSIVE", "INUSE", "MUTE", "UNPOWERED"}

\* The states a ReaderState is created with.
CurrentStates == {{}, {"EMPTY"}, {"PRESENT"}}

\* The event count of the reader when the record is created: none yet, or
\* close to the end of its 16 bits.
StartCounts == {0, Limb - 2, Limb - 1}

\* ReaderState::event_state: State::from_bits_truncate(dwEventState)
event_state(dw) == dw.flags \cap StateFlags

\* An event count read without the mask.
event_count_wide(dw) == dw.count

\* ReaderState::event_count: ((dwEventState & 0xFFFF0000) >> 16) as u32
event_count(dw) == dw.count % Limb

\* A sync that copies the state flags and leaves the event count out.
sync_current_state_bits(r) == [count |-> 0, flags |-> event_state(r.dwEventState)]

\* ReaderState::sync_current_state: dwCurrentState = dwEventState
sync_current_state(r) == r.dwEventState

\* The state of the reader as the native service knows it.
Actual(r) ==
    [count |-> r.counter, flags |-> IF r.present THEN {"PRESENT"} ELSE {"EMPTY"}]

\* The state word agrees with the reader in event count and card presence.
Agrees(dw, r) ==
    /\ event_count(dw) = r.counter
    /\ dw.flags \cap {"PRESENT", "EMPTY"} = Actual(r).flags

\* SCardGetStatusChange writes dwEventState: the reader's state, flagged
\* CHANGED, when dwCurrentState does not agree with it; when it agrees the
\* call ends with no change, the record rewritten or left alone.
NativeStates(r) ==
    IF Agrees(r.dwCurrentState, r)
    THEN {r.dwEventState, Actual(r)}
    ELSE {[Actual(r) EXCEPT !.flags = @ \cup {"CHANGED"}]}

\* What came before a response: no sync, a sync of a record out of date, a
\* sync and nothing since, a sync and one insertion, or something else.
Since(r) ==
    CASE ~r.synced -> "unsynced"
      [] ~r.fresh -> "stale"
      [] r.since = << >> -> "quiet"
      [] r.since = << "insertion" >> -> "insertion"
      [] OTHER -> "other"

InitReader ==
    /\ debug = FALSE
    /\ InitSys
    /\ errIn = 0
    /\ errOut = "none"
    /\ tm = NoTimeout
    /\ rn = NoReaderNames
    /\ bf = NoBuffered
    /\ tx = NoConnections
    /\ dr = NoDrops
    /\ \E current_state \in CurrentStates, n \in StartCounts, p \in BOOLEAN :
          rs = [NoReaderState EXCEPT
                   !.st = "new",
                   !.dwCurrentState = [count |-> 0, flags |-> current_state],
                   !.dwEventState = STATE_UNAWARE,
                   !.counter = n, !.present = p]

\* A card is inserted in the reader or removed from it.
CardEvent ==
    /\ rs.st # "none"
    /\ rs.events < MaxEvents
    /\ rs' = [rs EXCEPT !.present = ~@,
                        !.counter = (@ + 1) % Limb,
                        !.events = @ + 1,
                        !.since = IF rs.synced
                                  THEN Append(@, IF rs.present THEN "removal"
                                                 ELSE "insertion")
                                  ELSE @]
    /\ UNCHANGED << debug, sysvars, errIn, errOut, tm, rn, bf, tx, dr >>

\* ReaderState::sync_current_state
SyncCurrentState ==
    /\ rs.st # "none"
    /\ rs' = [rs EXCEPT !.dwCurrentState = sync_current_state(rs),
                        !.synced = TRUE,
                        !.fresh = Agrees(rs.dwEventState, rs),
                        !.since = << >>]
    /\ UNCHANGED << debug, sysvars, errIn, errOut, tm, rn, bf, tx, dr >>

\* Context::get_status_change with the record: the native call writes it.
StatusChange ==
    /\ rs.st # "none"
    /\ \E e \in NativeStates(rs) :
          rs' = [rs EXCEPT !.dwEventState = e,
                           !.prev = rs.dwEventState,
                           !.resp = IF Agrees(rs.dwCurrentState, rs)
                                    THEN "nochange" ELSE "changed",
                           !.was = Since(rs),
                           !.synced = FALSE,
                           !.fresh = FALSE,
                           !.since = << >>]
    /\ UNCHANGED << debug, sysvars, errIn, errOut, tm, rn, bf, tx, dr >>

NextReader == CardEvent \/ SyncCurrentState \/ StatusChange

SpecReader == InitReader /\ [][NextReader]_vars

(***************************************************************************)
(* A ReaderState bit by bit: a raw DWORD is its low 16 bits (lo) and the   *)
(* bits from 16 up (hi; Limb and more on a 64-bit DWORD).                  *)
(***************************************************************************)
\* The bit of each flag of State in the native header; bits 11 to 15 are no
\* flag.
BitName ==
    [i \in 0 .. 15 |->
        CASE i = 0 -> "IGNORE" [] i = 1 -> "CHANGED" [] i = 2 -> "UNKNOWN"
          [] i = 3 -> "UNAVAILABLE" [] i = 4 -> "EMPTY" [] i = 5 -> "PRESENT"
          [] i = 6 -> "ATRMATCH" [] i = 7 -> "EXCLUSIVE" [] i = 8 -> "INUSE"
          [] i = 9 -> "MUTE" [] i = 10 -> "UNPOWERED"
          [] i = 11 -> "bit11" [] i = 12 -> "bit12" [] i = 13 -> "bit13"
          [] i = 14 -> "bit14" [] OTHER -> "bit15"]

\* Bit i of n.
Bit(n, i) == (n \div (2 ^ i)) % 2

\* State::bits: the word with the bits of the flags.
RECURSIVE BitsFrom(_, _)
BitsFrom(flags, i) ==
    IF i > 15 THEN 0
    ELSE (IF BitName[i] \in flags THEN 2 ^ i ELSE 0) + BitsFrom(flags, i + 1)

bits(flags) == [hi |-> 0, lo |-> BitsFrom(flags, 0)]

\* A raw word as a state word: what is above bit 15, and the names of the low
\* bits set.
Word(raw) ==
    [count |-> raw.hi, flags |-> { BitName[i] : i \in { j \in 0 .. 15 : Bit(raw.lo, j) = 1 } }]

\* The raw words the native service is tried with: flags, bits that are no
\* flag, and counts up to the end of 16 bits and beyond 32.
LowWords == { b + c + d : b \in {0, 32}, c \in {0, 2048}, d \in {0, 32768} }

HighWords == {0, 1, Limb - 1, Limb + 1}

RawWords == [hi : HighWords, lo : LowWords]

\* The reader names and the ATRs tried.
ReaderNameSet == {<< 65 >>, << 66 >>}

Atrs == {<< >>, << 59 >>}

\* A ReaderState::new that reports the current state as the event state too.
ReaderState_new_event(name, current_state) ==
    [st |-> "new", szReader |-> name,
     dwCurrentState |-> bits(current_state), dwEventState |-> bits(current_state),
     rgbAtr |-> << >>,
     made |-> current_state, syncs |-> 0, read |-> [st |-> "none", state |-> {}, count |-> 0]]

\* ReaderState::new  (rgbAtr: the cbAtr bytes of the ATR; made, syncs and
\* read record the state asked for, the syncs since the last native write
\* and what the accessors returned.)
ReaderState_new(name, current_state) ==
    [st |-> "new", szReader |-> name,
     dwCurrentState |-> bits(current_state), dwEventState |-> bits(STATE_UNAWARE.flags),
     rgbAtr |-> << >>,
     made |-> current_state, syncs |-> 0, read |-> [st |-> "none", state |-> {}, count |-> 0]]

InitRecord ==
    /\ debug = FALSE
    /\ InitSys
    /\ errIn = 0
    /\ errOut = "none"
    /\ tm = NoTimeout
    /\ rn = NoReaderNames
    /\ bf = NoBuffered
    /\ tx = NoConnections
    /\ dr = NoDrops
    /\ \E name \in ReaderNameSet, current_state \in CurrentStates :
          rs = ReaderState_new(name, current_state)

\* Context::get_status_change: the native call writes the event state and
\* the ATR of the record.
WriteRecord ==
    /\ rs.st \in {"new", "written"}
    /\ \E w \in RawWords, atr \in Atrs :
          rs' = [rs EXCEPT !.st = "written", !.dwEventState = w, !.rgbAtr = atr,
                           !.syncs = 0,
                           !.read = [st |-> "none", state |-> {}, count |-> 0]]
    /\ UNCHANGED << debug, sysvars, errIn, errOut, tm, rn, bf, tx, dr >>

\* ReaderState::sync_current_state, at most twice in a row
SyncRecord ==
    /\ rs.st \in {"new", "written"}
    /\ rs.syncs < 2
    /\ rs' = [rs EXCEPT !.dwCurrentState = sync_current_state(rs), !.syncs = @ + 1]
    /\ UNCHANGED << debug, sysvars, errIn, errOut, tm, rn, bf, tx, dr >>

\* ReaderState::event_state and ReaderState::event_count
ReadRecord ==
    /\ rs.st \in {"new", "written"}
    /\ rs' = [rs EXCEPT !.read = [st |-> "read",
                                  state |-> event_state(Word(rs.dwEventState)),
                                  count |-> event_count(Word(rs.dwEventState))]]
    /\ UNCHANGED << debug, sysvars, errIn, errOut, tm, rn, bf, tx, dr >>

NextRecord == WriteRecord \/ SyncRecord \/ ReadRecord

SpecRecord == InitRecord /\ [][NextRecord]_vars

(***************************************************************************)
(* The connections to one card on their own: each is a Card of some        *)
(* thread, and the native service gives the card's transaction to one      *)
(* connection at a time.                                                   *)
(***************************************************************************)
\* The connections to the card.
MaxConn == 2

Conns == 1 .. MaxConn

\* A begin that never waits for another connection.
NativeBegins_any(holder, i) == holder \in 0 .. MaxConn /\ i \in Conns

\* SCardBeginTransaction goes through while no other connection holds a
\* transaction on the card; otherwise it waits for that transaction to end.
NativeBegins(holder, i) == holder \in {0, i}

\* The thread of connection i is not inside a call.
Free(i) == tx.blocked[tx.thread[i]] = 0

\* The call of connection i has returned.
Returned(i, op, res) ==
    [tx EXCEPT !.blocked[tx.thread[i]] = 0, !.op = op, !.conn = i, !.res = res]

\* Card::transaction returns: Ok(Transaction) on success, the error otherwise.
Begun(i, code) ==
    IF code = SCARD_S_SUCCESS
    THEN [Returned(i, "Card::transaction", "Ok") EXCEPT !.holder = i, !.open[i] = TRUE]
    ELSE Returned(i, "Card::transaction", "Err")

InitConnections ==
    /\ debug = FALSE
    /\ InitSys
    /\ errIn = 0
    /\ errOut = "none"
    /\ tm = NoTimeout
    /\ rn = NoReaderNames
    /\ bf = NoBuffered
    /\ rs = NoReaderState
    /\ dr = NoDrops
    /\ \E thread \in [Conns -> Threads] :
          tx = [NoConnections EXCEPT !.st = "run", !.thread = thread,
                                     !.open = [i \in Conns |-> FALSE]]

\* Card::transaction on connection i: the native call returns, or waits.
BeginTransaction(i) ==
    /\ tx.st = "run"
    /\ Free(i)
    /\ ~tx.open[i]
    /\ IF NativeBegins(tx.holder, i)
       THEN \E code \in {SCARD_S_SUCCESS} \cup NativeFail : tx' = Begun(i, code)
       ELSE tx' = [tx EXCEPT !.blocked[tx.thread[i]] = i, !.op = "Card::transaction",
                             !.conn = i, !.res = "Blocked"]
    /\ UNCHANGED << debug, sysvars, errIn, errOut, tm, rn, bf, rs, dr >>

\* The waiting SCardBeginTransaction of connection i returns, the card free.
TransactionGranted(i) ==
    /\ tx.st = "run"
    /\ tx.blocked[tx.thread[i]] = i
    /\ NativeBegins(tx.holder, i)
    /\ \E code \in {SCARD_S_SUCCESS} \cup NativeFail : tx' = Begun(i, code)
    /\ UNCHANGED << debug, sysvars, errIn, errOut, tm, rn, bf, rs, dr >>

\* The waiting SCardBeginTransaction of connection i fails (the card is
\* reset or removed, the service stops).
TransactionRefused(i) ==
    /\ tx.st = "run"
    /\ tx.blocked[tx.thread[i]] = i
    /\ ~NativeBegins(tx.holder, i)
    /\ tx' = Returned(i, "Card::transaction", "Err")
    /\ UNCHANGED << debug, sysvars, errIn, errOut, tm, rn, bf, rs, dr >>

\* Transaction::end on connection i
EndTransaction(i) ==
    /\ tx.st = "run"
    /\ Free(i)
    /\ tx.open[i]
    /\ \E code \in {SCARD_S_SUCCESS} \cup NativeFail :
          tx' = IF code = SCARD_S_SUCCESS
                THEN [Returned(i, "Transaction::end", "Ok")
                         EXCEPT !.holder = 0, !.open[i] = FALSE]
                ELSE Returned(i, "Transaction::end", "Err")
    /\ UNCHANGED << debug, sysvars, errIn, errOut, tm, rn, bf, rs, dr >>

\* Drop for Transaction on connection i
DropOpenTransaction(i) ==
    /\ tx.st = "run"
    /\ Free(i)
    /\ tx.open[i]
    /\ \E code \in {SCARD_S_SUCCESS} \cup NativeFail :
          tx' = [Returned(i, "Drop for Transaction", "Discarded")
                    EXCEPT !.holder = IF code = SCARD_S_SUCCESS THEN 0 ELSE @,
                           !.open[i] = FALSE]
    /\ UNCHANGED << debug, sysvars, errIn, errOut, tm, rn, bf, rs, dr >>

\* Card::status, get_attribute, set_attribute, transmit on connection i, on
\* the Card or through its Transaction: the native call returns.
OtherCall(i) ==
    /\ tx.st = "run"
    /\ Free(i)
    /\ \E op \in {"Card::status", "Card::get_attribute", "Card::set_attribute",
                   "Card::transmit"},
          code \in {SCARD_S_SUCCESS} \cup NativeFail :
          tx' = Returned(i, op, IF code = SCARD_S_SUCCESS THEN "Ok" ELSE "Err")
    /\ UNCHANGED << debug, sysvars, errIn, errOut, tm, rn, bf, rs, dr >>

NextConnections ==
    \E i \in Conns :
       \/ BeginTransaction(i)
       \/ TransactionGranted(i)
       \/ TransactionRefused(i)
       \/ EndTransaction(i)
       \/ DropOpenTransaction(i)
       \/ OtherCall(i)

SpecConnections == InitConnections /\ [][NextConnections]_vars

\* The native service lets a waiting SCardBeginTransaction through once the
\* card is free.
FairConnections ==
    SpecConnections /\ \A i \in Conns : WF_vars(TransactionGranted(i))

(***************************************************************************)
(* A Card and its Transactions on their own, with the disposition of every *)
(* native disconnect and end-transaction call.                             *)
(***************************************************************************)
\* The native calls followed.
MaxCalls == 4

\* enum Disposition
Dispositions == {"LeaveCard", "ResetCard", "UnpowerCard", "EjectCard"}

\* A drop that repeats the disposition the failed explicit call asked for.
CardDropDisposition_asked(asked) == IF asked = "none" THEN "ResetCard" ELSE asked

\* Drop for Card: Disposition::ResetCard
CardDropDisposition(asked) == "ResetCard"

\* Drop for Transaction: Disposition::LeaveCard
TransactionDropDisposition(asked) == "LeaveCard"

\* A native call in the record of calls.
Issued(native, disp, by, code) ==
    [native |-> native, disp |-> disp, by |-> by, code |-> code]

\* The explicit call panics in Error::from_raw and unwinds.
Unwinds(code) ==
    debug /\ code # SCARD_S_SUCCESS /\ ~InBlock1(code) /\ ~InBlock2(code)

InitDrops ==
    /\ debug \in BOOLEAN
    /\ InitSys
    /\ errIn = 0
    /\ errOut = "none"
    /\ tm = NoTimeout
    /\ rn = NoReaderNames
    /\ bf = NoBuffered
    /\ rs = NoReaderState
    /\ tx = NoConnections
    /\ dr = [NoDrops EXCEPT !.st = "run", !.card = "live"]

\* Card::transaction
BeginOn ==
    /\ dr.st = "run"
    /\ dr.card = "live"
    /\ dr.txn = "none"
    /\ Len(dr.calls) < MaxCalls
    /\ \E code \in {SCARD_S_SUCCESS} \cup NativeFail :
          dr' = [dr EXCEPT
                   !.calls = Append(@, Issued("SCardBeginTransaction", "none",
                                              "Card::transaction", code)),
                   !.txn = IF code = SCARD_S_SUCCESS THEN "open" ELSE @,
                   !.asked.txn = "none",
                   !.st = IF Unwinds(code) THEN "unwind" ELSE @]
    /\ UNCHANGED debug
    /\ UNCHANGED << sysvars, errIn, errOut, tm, rn, bf, rs, tx >>

\* Transaction::end(disposition)
EndWith(disposition) ==
    /\ dr.st = "run"
    /\ dr.txn = "open"
    /\ Len(dr.calls) < MaxCalls
    /\ \E code \in {SCARD_S_SUCCESS} \cup NativeFail :
          dr' = [dr EXCEPT
                   !.calls = Append(@, Issued("SCardEndTransaction", disposition,
                                              "Transaction::end", code)),
                   !.txn = IF code = SCARD_S_SUCCESS THEN "none" ELSE @,
                   !.asked.txn = IF code = SCARD_S_SUCCESS THEN "none" ELSE disposition,
                   !.st = IF Unwinds(code) THEN "unwind" ELSE @]
    /\ UNCHANGED debug
    /\ UNCHANGED << sysvars, errIn, errOut, tm, rn, bf, rs, tx >>

\* Drop for Transaction
DropTransactionOn ==
    /\ dr.st \in {"run", "unwind"}
    /\ dr.txn = "open"
    /\ \E code \in {SCARD_S_SUCCESS} \cup NativeFail :
          dr' = [dr EXCEPT
                   !.calls = Append(@, Issued("SCardEndTransaction",
                                              TransactionDropDisposition(dr.asked.txn),
                                              "Drop for Transaction", code)),
                   !.txn = "none"]
    /\ UNCHANGED debug
    /\ UNCHANGED << sysvars, errIn, errOut, tm, rn, bf, rs, tx >>

\* Card::disconnect(disposition)
DisconnectWith(disposition) ==
    /\ dr.st = "run"
    /\ dr.card = "live"
    /\ dr.txn = "none"
    /\ Len(dr.calls) < MaxCalls
    /\ \E code \in {SCARD_S_SUCCESS} \cup NativeFail :
          dr' = [dr EXCEPT
                   !.calls = Append(@, Issued("SCardDisconnect", disposition,
                                              "Card::disconnect", code)),
                   !.card = IF code = SCARD_S_SUCCESS THEN "forgotten" ELSE @,
                   !.asked.card = IF code = SCARD_S_SUCCESS THEN "none" ELSE disposition,
                   !.st = IF Unwinds(code) THEN "unwind" ELSE @]
    /\ UNCHANGED debug
    /\ UNCHANGED << sysvars, errIn, errOut, tm, rn, bf, rs, tx >>

\* Drop for Card
DropCardOn ==
    /\ dr.st \in {"run", "unwind"}
    /\ dr.card = "live"
    /\ dr.txn = "none"
    /\ \E code \in {SCARD_S_SUCCESS} \cup NativeFail :
          dr' = [dr EXCEPT
                   !.calls = Append(@, Issued("SCardDisconnect",
                                              CardDropDisposition(dr.asked.card),
                                              "Drop for Card", code)),
                   !.card = "dropped"]
    /\ UNCHANGED debug
    /\ UNCHANGED << sysvars, errIn, errOut, tm, rn, bf, rs, tx >>

NextDrops ==
    \/ BeginOn
    \/ DropTransactionOn
    \/ DropCardOn
    \/ \E disposition \in Dispositions :
          \/ EndWith(disposition)
          \/ DisconnectWith(disposition)

SpecDrops == InitDrops /\ [][NextDrops]_vars

(***************************************************************************)
(* Vocabulary of the properties.                                           *)
(***************************************************************************)
\* The Error a status code stands for: the variant declared with that code,
\* the catch-all for a code that no variant is declared with.
MappedError(code) ==
    IF \E e \in ErrorNames : FfiCodes[e] = code
    THEN CHOOSE e \in ErrorNames : FfiCodes[e] = code
    ELSE "UnknownError"

OutsideRanges(code) == ~InBlock1(code) /\ ~InBlock2(code)

ConsumingOps == {"Context::release", "Card::disconnect", "Transaction::end"}

DropOps == {"Drop for Context", "Drop for Card", "Drop for Transaction"}

CardNatives ==
    {"SCardStatus", "SCardGetAttrib", "SCardSetAttrib", "SCardTransmit",
     "SCardReconnect", "SCardBeginTransaction", "SCardEndTransaction",
     "SCardDisconnect"}

\* A release call, explicit or by scope exit, has been issued for Context c.
ReleaseIssued(c) == ctx[c].failed \/ ctx[c].st = "gone"

(***************************************************************************)
(* Properties of Error::from_raw (under SpecErr).                          *)
(***************************************************************************)
\* C9: Error::from_raw maps every raw code of the hard-failure range
\* [SCARD_F_INTERNAL_ERROR, SCARD_E_SERVER_TOO_BUSY] and of the warning range
\* [SCARD_W_UNSUPPORTED_CARD, SCARD_W_CACHE_ITEM_TOO_BIG] to the named variant
\* of Error whose value is that code; no code of either range is without one.
C9_RangesMapToNamedKind ==
    (errOut # "none" /\ (InBlock1(errIn) \/ InBlock2(errIn)))
        => /\ errOut \in ErrorNames
           /\ FfiCodes[errOut] = errIn
           /\ ErrorValue[errOut] = AsU32(errIn)

\* The upper end of the hard-failure range has been mapped.
C9_Witness ==
    /\ errIn = SCARD_E_SERVER_TOO_BUSY
    /\ errOut = "ServerTooBusy"

\* C10, as claimed: for any raw code outside both ranges, Error::from_raw
\* yields Error::UnknownError and never panics.
C10_Original ==
    (errOut # "none" /\ OutsideRanges(errIn)) => errOut = "UnknownError"

\* C10, amended: for any raw code outside both ranges, Error::from_raw yields
\* Error::UnknownError in a build without debug assertions, and panics (its
\* debug_assert!(false)) in a build with them.
C10_UnknownOutsideRanges ==
    (errOut # "none" /\ OutsideRanges(errIn))
        => errOut = (IF debug THEN PANIC ELSE "UnknownError")

\* A code outside both ranges has been mapped to the catch-all.
C10_Witness ==
    /\ errIn = VendorCode
    /\ ~debug
    /\ errOut = "UnknownError"

(***************************************************************************)
(* Properties of the resources (under Spec).  In every step, last' tells   *)
(* the operation of the step and the native call it issued.                *)
(***************************************************************************)
\* C1: once the native call of Context::release, Card::disconnect or
\* Transaction::end has returned success for a Context, a Card or a
\* Transaction, no further native release, disconnect or end-transaction call
\* is issued for it: no explicit call, no retry and no scope-exit cleanup.
C1_NoCloseAfterSuccess ==
    [][ /\ last'.native = "SCardReleaseContext" => ~ctx[last'.ctx].closed
        /\ last'.native = "SCardDisconnect" => ~card[last'.card].closed
        /\ last'.native = "SCardEndTransaction" => ~card[last'.card].txclosed
      ]_vars

\* Transaction::end has succeeded, and the Transaction is no more.
C1_Witness ==
    /\ last.op = "Transaction::end"
    /\ last.res = "Ok"
    /\ card[last.card].txclosed
    /\ card[last.card].ntx = 0

\* The resource a consuming operation was called on: its state, its native
\* handle and, for a Card, its protocol and its Transactions.
Resource(op, c, k, cs, ks) ==
    IF op = "Context::release"
    THEN << cs[c].st, cs[c].handle >>
    ELSE << ks[k].st, ks[k].handle, ks[k].proto, ks[k].ntx >>

C3_Original ==
    [][ last'.native \in CardNatives =>
          /\ ~ReleaseIssued(card[last'.card].ctx)
          /\ card[last'.card].st = "live"
          /\ last'.native = "SCardDisconnect" => card[last'.card].ntx = 0
      ]_vars

\* C3, amended: no native card operation is issued on a card handle after
\* the Context it was connected through has ended, that is after a release
\* call for it has returned success or its scope exit has issued one (a
\* Context whose release failed is returned alive, and its Cards are used
\* after that call); no end-transaction call is issued for a Card that is
\* gone, and no disconnect call while a Transaction on the Card is alive.
C3_CardWithinContext ==
    [][ last'.native \in CardNatives =>
          /\ ctx[card[last'.card].ctx].st = "live"
          /\ ctx'[card[last'.card].ctx].st = "live"
          /\ card[last'.card].st = "live"
          /\ last'.native = "SCardDisconnect" => card[last'.card].ntx = 0
      ]_vars

\* A Card has been disconnected after its Transaction was ended, in a Context
\* that is still alive.
C3_Witness ==
    /\ last.op = "Card::disconnect"
    /\ last.res = "Ok"
    /\ card[last.card].txclosed
    /\ ctx[last.ctx].st = "live"

\* C4: at most one Transaction is open on a Card at any time: a transaction
\* begins on a Card only when none is open on it.
C4_OneTransactionPerCard ==
    [][ /\ last'.native = "SCardBeginTransaction" => card[last'.card].ntx = 0
        /\ \A k \in CardIds : card'[k].ntx <= 1
      ]_vars

\* An operation has gone through the open Transaction of a Card.
C4_Witness ==
    /\ last.op = "Card::transmit"
    /\ last.res = "Ok"
    /\ card[last.card].ntx = 1

\* The wait of thread t has been cancelled and has not returned yet.
CancelledWait(t) == thr[t].st = "wait" /\ thr[t].cancelled

\* C5: Canceler::cancel invoked from another thread while the thread of the
\* Context is blocked in get_status_change on it cancels that wait, and a
\* cancelled wait returns Err(Error::Cancelled) to the thread that issued
\* it: it does not stay blocked.
C5_CancelEndsWait ==
    /\ [][ \A t \in Threads :
             /\ ( /\ last'.op = "Canceler::cancel"
                  /\ last'.thr # t
                  /\ thr[t].st = "wait"
                  /\ thr[t].ctx = last'.ctx ) => CancelledWait(t)'
             /\ (CancelledWait(t) /\ ~CancelledWait(t)')
                   => /\ last'.op = "Context::get_status_change"
                      /\ last'.thr = t
                      /\ last'.res = "Err"
                      /\ last'.err = "Cancelled"
         ]_vars
    /\ \A t \in Threads : CancelledWait(t) ~> (thr[t].st = "run")

\* The other thread has cancelled the wait the main thread is blocked in.
C5_Witness ==
    /\ last.op = "Canceler::cancel"
    /\ last.thr = "helper"
    /\ last.res = "Ok"
    /\ CancelledWait("main")
    /\ thr["main"].ctx = last.ctx

\* C6: Canceler::cancel invoked after the Context it was got from has been
\* released returns Err(Error::InvalidHandle) and has no other effect: it
\* cancels no wait of another Context.
C6_CancelAfterRelease ==
    [][ ( /\ last'.op = "Canceler::cancel"
          /\ ctx[last'.ctx].st = "gone"
          /\ ctx[last'.ctx].closed )
          => /\ last'.res = "Err"
             /\ last'.err = "InvalidHandle"
             /\ thr' = thr
      ]_vars

\* C7: every native call on the handle of a Context, or of a Card connected
\* through it, is issued by the thread that established the Context; only
\* the cancel call of a Canceler may come from any thread, also while the
\* Context's thread is in a call.
C7_ThreadConfined ==
    /\ (last.native \notin {"none", "SCardCancel"} /\ last.ctx # 0)
          => last.thr = ctx[last.ctx].owner
    /\ \A t \in Threads : thr[t].st = "wait" => t = ctx[thr[t].ctx].owner

\* The other thread has issued the cancel call while the thread of the
\* Context was in a call on it.
C7_Witness ==
    /\ last.native = "SCardCancel"
    /\ last.thr = "helper"
    /\ ctx[last.ctx].owner = "main"
    /\ thr["main"].st = "wait"

FallibleOps ==
    {"Context::establish", "Context::release", "Context::is_valid",
     "Context::list_readers", "Context::connect", "Context::get_status_change",
     "Canceler::cancel", "Card::transaction", "Card::reconnect",
     "Card::disconnect", "Card::status", "Card::get_attribute",
     "Card::set_attribute", "Card::transmit", "Transaction::end"}

\* The operation of the last step has returned or panicked (it is not the
\* issue of a wait that still blocks).
Completed == last.op \in FallibleOps /\ last.res # "Blocked"

\* C8, as claimed: every fallible operation returns success exactly when the
\* native call returned the success code and otherwise returns the mapped
\* error; only scope-exit cleanup discards a native code.
C8_Original ==
    /\ Completed =>
          /\ last.res = "Ok" <=> last.code = SCARD_S_SUCCESS
          /\ last.code # SCARD_S_SUCCESS
                => last.res = "Err" /\ last.err = MappedError(last.code)
    /\ last.res = "Discarded" => last.op \in DropOps

\* C8, amended: every fallible operation returns success exactly when the
\* native call returned the success code, except that Context::list_readers
\* also returns success (an empty list) on the no-readers-available code and
\* that connect, reconnect and status panic when the successful native call
\* reported a protocol that is none of T0, T1 and RAW; on any other code the
\* operation returns the mapped error, except that in a build with debug
\* assertions a code outside both Error ranges makes it panic.  Only the
\* three scope-exit cleanups (Drop for Context, Card and Transaction) discard
\* a native code, and they discard every one.
C8_ResultFollowsNativeCode ==
    LET swallowed == /\ last.op = "Context::list_readers"
                     /\ last.code = NoReadersAvailableCode
        undecoded == /\ last.code = SCARD_S_SUCCESS
                     /\ last.raw # -1
                     /\ Protocol_from_raw(last.raw) = PANIC
    IN  /\ Completed =>
              /\ last.res = "Ok"
                    <=> ((last.code = SCARD_S_SUCCESS /\ ~undecoded) \/ swallowed)
              /\ undecoded => last.res = "Panic"
              /\ (last.code # SCARD_S_SUCCESS /\ ~swallowed)
                    => IF debug /\ OutsideRanges(last.code)
                       THEN last.res = "Panic"
                       ELSE last.res = "Err" /\ last.err = MappedError(last.code)
        /\ last.res = "Discarded" <=> last.op \in DropOps

\* list_readers has turned the no-readers-available code into success.
C8_Witness ==
    /\ last.op = "Context::list_readers"
    /\ last.code = NoReadersAvailableCode
    /\ last.res = "Ok"

(***************************************************************************)
(* The protocol a native call reports.                                     *)
(***************************************************************************)
ProtocolOps == {"Context::connect", "Card::reconnect", "Card::status"}

\* C11: no operation panics for a native outcome: in connect, reconnect and
\* status the panic branch of Protocol::from_raw is not reached, that is,
\* whenever the native call returns success the protocol it reports is T0, T1
\* or RAW, for every share mode and every mask of preferred protocols.
C11_ProtocolPanicUnreachable ==
    (last.op \in ProtocolOps /\ last.code = SCARD_S_SUCCESS)
       => /\ last.res # "Panic"
          /\ Protocol_from_raw(last.raw) \in {"T0", "T1", "RAW"}

(***************************************************************************)
(* The timeout (under SpecTimeout).                                        *)
(***************************************************************************)
\* The whole milliseconds of a duration, exactly: a number of five limbs.
ExactMillis(d) ==
    LET a  == d.nanos \div 1000000
        p1 == d.secs[1] * 1000 + a
        p2 == d.secs[2] * 1000 + (p1 \div Limb)
        p3 == d.secs[3] * 1000 + (p2 \div Limb)
        p4 == d.secs[4] * 1000 + (p3 \div Limb)
    IN  << p1 % Limb, p2 % Limb, p3 % Limb, p4 % Limb, p4 \div Limb >>

\* min(INFINITE, n) of a number of five limbs, as a DWORD
CappedAtInfinite(n) ==
    IF n[3] = 0 /\ n[4] = 0 /\ n[5] = 0 THEN << n[1], n[2], 0, 0 >> ELSE INFINITE

\* C12: the timeout handed to the native call is min(INFINITE, whole
\* milliseconds of the duration), for a DWORD of 32 and of 64 bits; None gives
\* INFINITE.
C12_TimeoutIsCappedMillis ==
    tm.ms # << >> =>
       tm.ms = IF ~tm.timeout.some
               THEN INFINITE
               ELSE CappedAtInfinite(ExactMillis(tm.timeout))

(***************************************************************************)
(* ReaderNames (under SpecNames).                                          *)
(***************************************************************************)
\* C15: decoding the buffer made of N non-empty, NUL-free names, each followed
\* by a NUL, and one more NUL gives exactly the N names in order and then
\* ends; the buffer holding a single NUL gives no name.
C15_ReaderNamesRoundTrip ==
    /\ Len(rn.given) <= Len(rn.names)
    /\ rn.given = SubSeq(rn.names, 1, Len(rn.given))
    /\ rn.nones > 0 => rn.given = rn.names

\* Two names have been given, and then the end twice.
C15_Witness ==
    /\ Len(rn.names) = 2
    /\ rn.given = rn.names
    /\ rn.nones = 2

(***************************************************************************)
(* The output buffers (under SpecBuffered).  bf.buffer is the caller's     *)
(* buffer as passed, bf.out what the native service has to write.          *)
(***************************************************************************)
\* The native call needs more bytes than the buffer holds.
NeedsMore == bf.fate = "serve" /\ Len(bf.out) > Len(bf.buffer)

InsufficientReported == bf.res = "Err" /\ bf.err = "InsufficientBuffer"

\* The view returned is the start of the caller's buffer, as long as the
\* native call reported and holding what it wrote.
ViewOfBuffer ==
    /\ bf.view.of = "buffer"
    /\ bf.view.start = 0
    /\ bf.view.len = bf.len
    /\ bf.view.len <= Len(bf.buffer)
    /\ bf.view.bytes = bf.out

\* C13, as claimed: when the native call needs more bytes than the buffer
\* holds the operation returns Err(InsufficientBuffer); when the operation
\* succeeds, the view returned is a sub-slice of the caller's buffer from
\* offset 0, of the length the native call reported, not longer than the
\* buffer.
C13_Original ==
    bf.res # "none" =>
       /\ NeedsMore => InsufficientReported
       /\ bf.res = "Ok" => ViewOfBuffer

\* C13, amended: as claimed when the native call succeeds; when list_readers
\* succeeds on the no-readers-available code the view is a static buffer of
\* one NUL byte, no part of the caller's buffer (and longer than a caller's
\* buffer of length 0).
C13_BufferContract ==
    bf.res # "none" =>
       /\ NeedsMore => InsufficientReported
       /\ bf.code = SCARD_S_SUCCESS => bf.res = "Ok" /\ ViewOfBuffer
       /\ (bf.res = "Ok" /\ bf.code # SCARD_S_SUCCESS)
             => /\ bf.op = "Context::list_readers"
                /\ bf.code = NoReadersAvailableCode
                /\ bf.view = StaticNul.view

\* transmit with a buffer of 2 bytes and the native response 0x90 0x00.
C13_Witness ==
    /\ bf.op = "Card::transmit"
    /\ Len(bf.buffer) = 2
    /\ bf.out = << 144, 0 >>
    /\ bf.res = "Ok"
    /\ bf.view.bytes = << 144, 0 >>

\* The names a ReaderNames over the bytes gives until its first None.
RECURSIVE Names(_, _)
Names(buf, pos) ==
    LET r == ReaderNames_next(buf, pos)
    IN  IF r.item = << >> THEN << >> ELSE << r.item >> \o Names(buf, r.pos)

NoReadersReported == bf.op = "Context::list_readers" /\ bf.code = NoReadersAvailableCode

\* C14, as claimed: on the no-readers-available code list_readers returns
\* success with a sequence of no names, for every buffer size; every other
\* non-success code is returned as its mapped error.
C14_Original ==
    (bf.op = "Context::list_readers" /\ bf.res # "none") =>
       /\ NoReadersReported => bf.res = "Ok" /\ Names(bf.view.bytes, 0) = << >>
       /\ (bf.code # SCARD_S_SUCCESS /\ ~NoReadersReported)
             => bf.res = "Err" /\ bf.err = MappedError(bf.code)

\* C14, amended: as claimed, except that in a build with debug assertions a
\* non-success code outside both Error ranges makes list_readers panic.
C14_NoReadersIsEmpty ==
    (bf.op = "Context::list_readers" /\ bf.res # "none") =>
       /\ NoReadersReported => bf.res = "Ok" /\ Names(bf.view.bytes, 0) = << >>
       /\ (bf.code # SCARD_S_SUCCESS /\ ~NoReadersReported)
             => IF debug /\ OutsideRanges(bf.code)
                THEN bf.res = "Panic"
                ELSE bf.res = "Err" /\ bf.err = MappedError(bf.code)

\* No readers, reported to a caller whose buffer has length 0.
C14_Witness ==
    /\ NoReadersReported
    /\ bf.buffer = << >>
    /\ bf.res = "Ok"

(***************************************************************************)
(* The protocol-control descriptor of transmit (under Spec).               *)
(***************************************************************************)
\* The static descriptor of a protocol as the native layer numbers it.
PciOfRaw(raw) ==
    CASE raw = SCARD_PROTOCOL_T0 -> "g_rgSCardT0Pci"
      [] raw = SCARD_PROTOCOL_T1 -> "g_rgSCardT1Pci"
      [] raw = SCARD_PROTOCOL_RAW -> "g_rgSCardRawPci"
      [] OTHER -> "none"

\* C16: transmit hands the native call the static descriptor of the protocol
\* that the most recent successful connect or reconnect of the Card reported:
\* a successful connect or reconnect makes the reported protocol the Card's,
\* a reconnect that fails leaves the Card's protocol as it was, no other
\* operation changes it, and every transmit passes its descriptor.
C16_TransmitUsesActivePci ==
    [][ \A k \in CardIds :
          /\ (last'.card = k /\ last'.op = "Card::transmit")
                => /\ last'.pci = PciOfRaw(card[k].active)
                   /\ last'.pci # "none"
          /\ (last'.card = k /\ last'.res = "Ok"
                 /\ last'.op \in {"Context::connect", "Card::reconnect"})
                => card'[k].active = last'.raw
          /\ ~(last'.card = k /\ last'.res = "Ok"
                 /\ last'.op \in {"Context::connect", "Card::reconnect"})
                => (card'[k].st = "live" /\ card[k].st = "live"
                      => card'[k].active = card[k].active)
      ]_vars

\* A transmit on a Card whose connection runs T1, with the descriptor of T1.
C16_Witness ==
    /\ last.op = "Card::transmit"
    /\ last.card \in CardIds
    /\ card[last.card].active = SCARD_PROTOCOL_T1
    /\ last.pci = "g_rgSCardT1Pci"

(***************************************************************************)
(* The Card through a Transaction (under Spec).                            *)
(***************************************************************************)
\* Thread t holds an open Transaction on Card k and is free to call.
HoldsTransaction(t, k) ==
    /\ card[k].st = "live"
    /\ card[k].ntx > 0
    /\ SameThread(t, card[k].ctx)
    /\ Running(t)

\* status, get_attribute, set_attribute and transmit can be called.
SharedOpsAvailable(t, k) ==
    /\ ENABLED Status(t, k)
    /\ ENABLED GetAttribute(t, k)
    /\ ENABLED SetAttribute(t, k)
    /\ ENABLED Transmit(t, k)

\* C17: while a Transaction is open, every Card operation (status,
\* get_attribute, set_attribute, transmit and reconnect) remains available
\* through it.
C17_TransactionDelegates ==
    \A t \in Threads, k \in CardIds :
       HoldsTransaction(t, k)
          => SharedOpsAvailable(t, k) /\ ENABLED Reconnect(t, k)

(***************************************************************************)
(* Cancel with nothing to cancel (under Spec).                             *)
(***************************************************************************)
\* A get_status_change is outstanding on the context handle h.
Outstanding(h) ==
    \E t \in Threads : thr[t].st = "wait" /\ ctx[thr[t].ctx].handle = h

\* C20: a Canceler::cancel made while no get_status_change is outstanding on
\* its context changes nothing of the Contexts, Cards, Transactions and
\* threads, and no later get_status_change is cancelled by it: a wait starts
\* uncancelled and becomes cancelled only by a cancel that succeeds while it
\* is outstanding.
C20_IdleCancelIsNoOp ==
    [][ /\ (last'.op = "Canceler::cancel" /\ ~Outstanding(canc[last'.ctx]))
            => /\ ctx' = ctx
               /\ card' = card
               /\ thr' = thr
               /\ canc' = canc
               /\ nctx' = nctx
               /\ ncard' = ncard
        /\ \A t \in Threads :
              (thr'[t].st = "wait" /\ thr'[t].cancelled)
                 => /\ thr[t].st = "wait"
                    /\ \/ thr[t].cancelled
                       \/ /\ last'.op = "Canceler::cancel"
                          /\ last'.code = SCARD_S_SUCCESS
                          /\ canc[last'.ctx] = ctx[thr[t].ctx].handle
      ]_vars

\* A cancel has returned success with no get_status_change outstanding, and
\* the Context of its handle is alive.
C20_Witness ==
    /\ last.op = "Canceler::cancel"
    /\ last.res = "Ok"
    /\ \A t \in Threads : thr[t].st # "wait"
    /\ \E c \in CtxIds : ctx[c].st = "live" /\ ctx[c].handle = canc[last.ctx]

(***************************************************************************)
(* The ReaderState after a sync (under SpecReader).  rs.prev is the event  *)
(* state before the last response, rs.was what came before that response.  *)
(***************************************************************************)
\* The last response came after a sync and reported no change.
NoChangeAfterSync == rs.was \notin {"none", "unsynced"} /\ rs.resp = "nochange"

\* C18, as claimed: after sync_current_state, a response that reports no
\* change leaves event_state() and event_count() unchanged; a response that
\* reports a single card insertion increases event_count() by exactly 1.
C18_Original ==
    /\ NoChangeAfterSync
          => /\ event_state(rs.dwEventState) = event_state(rs.prev)
             /\ event_count(rs.dwEventState) = event_count(rs.prev)
    /\ rs.was = "insertion"
          => event_count(rs.dwEventState) = event_count(rs.prev) + 1

\* C18, amended: after sync_current_state of a record that is up to date, a
\* wait with no card event since reports no change; a response that reports
\* no change leaves event_count() unchanged and event_state() unchanged but
\* for the CHANGED flag, which it does not carry; a response that reports a
\* single card insertion increases event_count() by 1 modulo 2^16.
C18_SyncedRecord ==
    /\ rs.was = "quiet" => rs.resp = "nochange"
    /\ NoChangeAfterSync
          => /\ event_state(rs.dwEventState) \ {"CHANGED"}
                   = event_state(rs.prev) \ {"CHANGED"}
             /\ event_count(rs.dwEventState) = event_count(rs.prev)
    /\ rs.was = "insertion"
          => /\ rs.resp = "changed"
             /\ event_count(rs.dwEventState) = (event_count(rs.prev) + 1) % Limb

\* A single insertion after a sync has been reported, the count one higher.
C18_Witness ==
    /\ rs.was = "insertion"
    /\ "PRESENT" \in event_state(rs.dwEventState)
    /\ event_count(rs.dwEventState) = event_count(rs.prev) + 1

(***************************************************************************)
(* Which operations wait (under FairConnections).                          *)
(***************************************************************************)
\* The thread is inside a Card::transaction that has not returned.
InTransactionCall(t) == tx.blocked[t] # 0

CallsBy(by) == { n \in DOMAIN dr.calls : dr.calls[n].by = by }

\* The calls that begin, end or drop a Transaction.
TransactionCalls ==
    { n \in DOMAIN dr.calls :
         dr.calls[n].native \in {"SCardBeginTransaction", "SCardEndTransaction"} }

\* The call before call n among the calls about Transactions (0: none).
Before(n) ==
    IF \E m \in TransactionCalls : m < n
    THEN CHOOSE m \in TransactionCalls :
            m < n /\ \A x \in TransactionCalls : x < n => x <= m
    ELSE 0

\* Call m left a Transaction alive: a begin that succeeded or an explicit end
\* that failed.
LeftOpen(m) ==
    /\ m # 0
    /\ \/ dr.calls[m].by = "Card::transaction" /\ dr.calls[m].code = SCARD_S_SUCCESS
       \/ dr.calls[m].by = "Transaction::end" /\ dr.calls[m].code # SCARD_S_SUCCESS

\* C21: dropping a Card issues exactly one native call, a disconnect with
\* ResetCard, and dropping a Transaction exactly one, an end-transaction with
\* LeaveCard, whatever the call returns and whatever disposition a failed
\* explicit disconnect or end of the value asked for before.
C21_DropIssuesOneCall ==
    /\ Cardinality(CallsBy("Drop for Card")) = (IF dr.card = "dropped" THEN 1 ELSE 0)
    /\ \A n \in CallsBy("Drop for Card") :
          /\ dr.calls[n].native = "SCardDisconnect"
          /\ dr.calls[n].disp = "ResetCard"
          /\ n = Len(dr.calls)
    /\ \A n \in CallsBy("Drop for Transaction") :
          /\ dr.calls[n].native = "SCardEndTransaction"
          /\ dr.calls[n].disp = "LeaveCard"
          /\ LeftOpen(Before(n))
    /\ (dr.txn = "none" /\ TransactionCalls # {})
          => ~LeftOpen(Before(Len(dr.calls) + 1))

\* A Card given back by a failed disconnect(UnpowerCard) and a Transaction
\* given back by a failed end(ResetCard) have been dropped.
C21_Witness ==
    /\ dr.card = "dropped"
    /\ \E n \in CallsBy("Card::disconnect") :
          dr.calls[n].disp = "UnpowerCard" /\ dr.calls[n].code # SCARD_S_SUCCESS
    /\ \E n \in CallsBy("Drop for Transaction") :
          /\ dr.calls[Before(n)].by = "Transaction::end"
          /\ dr.calls[Before(n)].disp = "ResetCard"

(***************************************************************************)
(* Native handles and the values that own them (under Spec).               *)
(***************************************************************************)
\* C22: no native handle is leaked: every context handle that is valid and
\* every card handle that a native connect gave out is the handle of a Context
\* or Card value, alive (to be released explicitly or at scope exit) or gone
\* with its native release or disconnect call issued; also when the protocol
\* decoding of connect fails after the native connect succeeded.
C22_NoHandleLeaked ==
    /\ \A h \in nctx :
          \E c \in CtxIds : ctx[c].st # "unborn" /\ ctx[c].handle = h
    /\ \A h \in ncard :
          \E k \in CardIds : card[k].st # "unborn" /\ card[k].handle = h

(***************************************************************************)
(* The recorded protocol of a Card (under Spec).                           *)
(***************************************************************************)
\* C23: the recorded active protocol of a Card changes only on a successful
\* reconnect of that Card: every other step (a failed reconnect, a failed
\* disconnect, status whatever protocol it reports, get_attribute,
\* set_attribute, transmit, beginning or ending a transaction) leaves it as it
\* was.
C23_ProtocolChangesOnReconnect ==
    [][ \A k \in CardIds :
          (card[k].st # "unborn" /\ card'[k].proto # card[k].proto)
             => /\ last'.op = "Card::reconnect"
                /\ last'.res = "Ok"
                /\ last'.card = k
      ]_vars

\* A status has returned with a protocol that is not the Card's recorded one.
C23_Witness ==
    /\ last.op = "Card::status"
    /\ last.res = "Ok"
    /\ last.card \in CardIds
    /\ Protocol_from_raw(last.raw) # card[last.card].proto

(***************************************************************************)
(* Cancelers and the Context they come from (under Spec).                  *)
(***************************************************************************)
\* C24: get_canceler issues no native call and leaves the Context as it was,
\* the Canceler holding the Context's handle; cancel issues SCardCancel only
\* and leaves every Context as it was and as valid as it was; a native
\* release-context call is issued only by Context::release and by the drop of
\* the Context.
C24_CancelerLeavesContext ==
    [][ /\ last'.op = "Context::get_canceler"
            => /\ last'.native = "none"
               /\ ctx' = ctx
               /\ nctx' = nctx
               /\ canc'[last'.ctx] = ctx[last'.ctx].handle
        /\ last'.op = "Canceler::cancel"
            => /\ last'.native = "SCardCancel"
               /\ ctx' = ctx
               /\ nctx' = nctx
               /\ canc' = canc
        /\ (last'.native = "SCardReleaseContext" \/ (nctx' \subseteq nctx /\ nctx' # nctx))
            => last'.op \in {"Context::release", "Drop for Context"}
      ]_vars

\* A Canceler of a Context has been used and the Context is alive and valid.
C24_Witness ==
    /\ last.op = "Canceler::cancel"
    /\ last.res = "Ok"
    /\ ctx[last.ctx].st = "live"
    /\ canc[last.ctx] = ctx[last.ctx].handle
    /\ ctx[last.ctx].handle \in nctx

(***************************************************************************)
(* ReaderNames over any bytes (under SpecCursor).                          *)
(***************************************************************************)
\* The positions of the NUL bytes of a buffer.
Nuls(buf) == { i \in 1 .. Len(buf) : buf[i] = 0 }

\* The NUL-terminated pieces of the bytes from position i on, up to the first
\* empty piece; bytes with no NUL after them are no piece.
RECURSIVE Pieces(_, _)
Pieces(buf, i) ==
    IF \A j \in Nuls(buf) : j < i
    THEN << >>
    ELSE LET j == CHOOSE x \in Nuls(buf) : x >= i /\ \A y \in Nuls(buf) : y >= i => x <= y
         IN  IF j = i
             THEN << >>
             ELSE << [n \in 1 .. (j - i) |-> buf[i + n - 1]] >> \o Pieces(buf, j + 1)

\* s is the start of u.
IsPrefix(s, u) == Len(s) <= Len(u) /\ SubSeq(u, 1, Len(s)) = s

\* C25: for every buffer next() stays inside it (0 <= pos <= length, on a
\* byte after a NUL or at 0), yields no more names than the buffer has NUL
\* bytes, yields the NUL-terminated pieces up to the first empty one in their
\* order and nothing else (no name after an empty name, no final bytes without
\* NUL), and returns None again on every call after a None.
C25_NextStaysInBuffer ==
    rn.st = "live" =>
       /\ 0 <= rn.pos /\ rn.pos <= Len(rn.buf)
       /\ rn.pos = 0 \/ rn.buf[rn.pos] = 0
       /\ Len(rn.given) <= Cardinality(Nuls(rn.buf))
       /\ IsPrefix(rn.given, Pieces(rn.buf, 1))
       /\ rn.nones > 0
             => /\ rn.given = Pieces(rn.buf, 1)
                /\ ReaderNames_next(rn.buf, rn.pos).item = << >>
                /\ ReaderNames_next(rn.buf, rn.pos).pos = rn.pos

\* next() has returned None twice over a buffer that holds a name, an empty
\* name, another name and final bytes with no NUL; one name was yielded.
C25_Witness ==
    /\ rn.st = "live"
    /\ rn.buf = << 65, 0, 0, 65, 0 >>
    /\ rn.nones = 2
    /\ rn.given = << << 65 >> >>

\* C28: a clone yields the names the original yields from the point of the
\* clone on, and a call of next() on one of the two leaves the position of
\* the other as it was.
C28_CloneIsIndependent ==
    [][ /\ rn'.cl.st = "live"
            => LET rest == SubSeq(rn'.given, rn'.from + 1, Len(rn'.given))
               IN  /\ IsPrefix(rn'.cl.given, rest) \/ IsPrefix(rest, rn'.cl.given)
                   /\ (rn'.nones > 0 /\ rn'.cl.nones > 0) => rn'.cl.given = rest
                   /\ IsPrefix(SubSeq(rn'.given, 1, rn'.from) \o rn'.cl.given,
                               Pieces(rn'.buf, 1))
        /\ (rn.cl.st = "live" /\ rn'.pos # rn.pos) => rn'.cl = rn.cl
        /\ (rn.cl.st = "live" /\ rn'.cl.pos # rn.cl.pos)
            => (rn'.pos = rn.pos /\ rn'.given = rn.given)
      ]_vars

\* A clone taken after the first name has yielded the second name, the
\* original still standing where the clone was taken.
C28_Witness ==
    /\ rn.st = "live"
    /\ rn.cl.st = "live"
    /\ rn.from = 1
    /\ Len(rn.given) = 1
    /\ Len(rn.cl.given) = 1
    /\ rn.cl.pos > rn.pos

(***************************************************************************)
(* The accessors and the sync of a ReaderState (under SpecRecord).         *)
(***************************************************************************)
\* Bits 0 to 15 of n, bit by bit.
RECURSIVE Low16(_, _)
Low16(n, i) == IF i > 15 THEN 0 ELSE Bit(n, i) * (2 ^ i) + Low16(n, i + 1)

\* C26: event_count() is bits 16 to 31 of the event-state word, a value in
\* 0..65535, and event_state() holds only flags of State, those whose bit is
\* set in the low 16 bits; neither depends on the other half of the word.
C26_CountAndFlagsApart ==
    (rs.st = "written" /\ rs.read.st = "read") =>
       LET w == rs.dwEventState
       IN  /\ rs.read.count = Low16(w.hi, 0)
           /\ rs.read.count \in 0 .. 65535
           /\ rs.read.state \subseteq StateFlags
           /\ rs.read.state = { BitName[i] : i \in { j \in 0 .. 10 : Bit(w.lo, j) = 1 } }
           /\ \A h \in HighWords :
                 event_state(Word([w EXCEPT !.hi = h])) = rs.read.state
           /\ \A l \in LowWords :
                 event_count(Word([w EXCEPT !.lo = l])) = rs.read.count

\* The accessors have read a word with the last count of 16 bits, a bit
\* above bit 31, a flag and a low bit that is no flag.
C26_Witness ==
    /\ rs.st = "written"
    /\ rs.read.st = "read"
    /\ rs.dwEventState = [hi |-> Limb + 1, lo |-> 32 + 32768]
    /\ rs.read.count = 1
    /\ rs.read.state = {"PRESENT"}

\* C27: sync_current_state makes the current-state word the whole
\* event-state word and leaves the event-state word, the name and the ATR
\* alone, and a second sync changes nothing; a record from new(name, s) has
\* current state s, an empty event_state() and an event_count() of 0.
C27_SyncCopiesWholeWord ==
    [][ /\ (rs.st = "new" /\ rs.syncs = 0)
            => /\ rs.dwCurrentState = bits(rs.made)
               /\ event_state(Word(rs.dwCurrentState)) = rs.made
               /\ event_state(Word(rs.dwEventState)) = {}
               /\ event_count(Word(rs.dwEventState)) = 0
        /\ (rs.st \in {"new", "written"} /\ rs'.syncs = rs.syncs + 1)
            => /\ rs'.dwCurrentState = rs.dwEventState
               /\ rs'.dwEventState = rs.dwEventState
               /\ rs'.szReader = rs.szReader
               /\ rs'.rgbAtr = rs.rgbAtr
               /\ sync_current_state(rs') = rs'.dwCurrentState
               /\ rs.syncs = 1 => rs'.dwCurrentState = rs.dwCurrentState
      ]_vars

\* A record created EMPTY was written with a count and a flag and synced
\* twice: the current-state word holds the count.
C27_Witness ==
    /\ rs.st = "written"
    /\ rs.syncs = 2
    /\ rs.made = {"EMPTY"}
    /\ rs.dwEventState = [hi |-> Limb - 1, lo |-> 32]
    /\ rs.dwCurrentState = rs.dwEventState
    /\ rs.rgbAtr = << 59 >>

=============================================================================
